---- MODULE Spec2Model ----
(***************************************************************************)
(* A2UI core: the update engine (libs/a2ui-core/src/utils.ts).             *)
(*                                                                         *)
(* JavaScript objects and arrays are modelled as cells of a heap, so that  *)
(* "a new object" and "the same object" differ: a response, its components *)
(* array, every component, every children array and the data object are    *)
(* cells, and a field that holds one of them holds its address.  Address 0 *)
(* stands for undefined.  Strings, booleans and numbers are strings.       *)
(*                                                                         *)
(* The batch form of the update (applyUpdates, and the hook's) is checked  *)
(* on the same heap.  The binding engine (resolveBinding, setBinding,      *)
(* evaluateCondition) and the validators (libs/a2ui-core/src/schema.ts)    *)
(* are pure functions of JavaScript values: they are operators on tagged   *)
(* values, with strings handled character by character, and each has a     *)
(* specification whose steps call it on a bounded set of inputs.           *)
(***************************************************************************)
EXTENDS Integers, Sequences, FiniteSets, TLC

VARIABLES
    heap,   \* the cells allocated so far, heap[a] is the cell at address a
    resp,   \* address of the response the caller currently holds
    hist,   \* every response the caller has held, the current one last: its
            \* address, the value observed when it was obtained, and the
            \* update whose application returned it
    call    \* the last call of one of the other functions: its name, its
            \* arguments and what it returned

vars == <<heap, resp, hist, call>>

NoCall == [fn |-> "none"]

\* Largest number of applyUpdate calls in one behaviour.
MaxUpdates == 2

------------------------------------------------------------------------------
(* Values                                                                   *)

EmptyObject == [x \in {} |-> ""]

Range(s) == {s[i] : i \in DOMAIN s}

\* { ...a, ...b }: the keys of both, b's value where both have the key.
Spread(a, b) ==
    [key \in (DOMAIN a) \cup (DOMAIN b) |-> IF key \in DOMAIN b THEN b[key] ELSE a[key]]

\* A JSON value stored under a key of `data`: a primitive or a nested mapping.
Prim(s) == [t |-> "prim", p |-> s, m |-> EmptyObject]
Nested(m) == [t |-> "map", p |-> "", m |-> m]

\* array.filter((id) => id !== x)
RECURSIVE FilterOut(_, _)
FilterOut(s, x) ==
    IF s = <<>> THEN <<>>
    ELSE IF Head(s) = x THEN FilterOut(Tail(s), x)
         ELSE <<Head(s)>> \o FilterOut(Tail(s), x)

------------------------------------------------------------------------------
(* Heap                                                                     *)

Alloc(h, cell) == [heap |-> Append(h, cell), addr |-> Len(h) + 1]

\* A component object; a children array is a cell of its own.
AllocComponent(h, c) ==
    IF "children" \in DOMAIN c
    THEN LET a == Alloc(h, [k |-> "ids", elems |-> c.children])
         IN  Alloc(a.heap, [k |-> "component", f |-> [c EXCEPT !.children = a.addr]])
    ELSE Alloc(h, [k |-> "component", f |-> c])

RECURSIVE AllocComponents(_, _, _)
AllocComponents(h, cs, acc) ==
    IF cs = <<>> THEN [heap |-> h, addrs |-> acc]
    ELSE LET a == AllocComponent(h, Head(cs))
         IN  AllocComponents(a.heap, Tail(cs), Append(acc, a.addr))

\* The response a producer hands over, laid out as fresh objects.
AllocResponse(h, r) ==
    LET cs == AllocComponents(h, r.components, <<>>)
        ar == Alloc(cs.heap, [k |-> "array", elems |-> cs.addrs])
        d  == IF r.hasData THEN Alloc(ar.heap, [k |-> "object", f |-> r.data])
                           ELSE [heap |-> ar.heap, addr |-> 0]
    IN  Alloc(d.heap, [k |-> "response", version |-> r.version, root |-> r.root,
                       components |-> ar.addr, data |-> d.addr])

\* The update a caller builds: its component and data payloads are objects.
AllocUpdate(h, u) ==
    LET c == IF u.hasComponent THEN AllocComponent(h, u.component)
                               ELSE [heap |-> h, addr |-> 0]
        d == IF u.hasData THEN Alloc(c.heap, [k |-> "object", f |-> u.data])
                          ELSE [heap |-> c.heap, addr |-> 0]
    IN  [heap |-> d.heap,
         update |-> [operation |-> u.operation, targetId |-> u.targetId,
                     component |-> c.addr, data |-> d.addr]]

\* What deep equality sees of a component and of a response.
ComponentValue(h, a) ==
    LET f == h[a].f
    IN  IF "children" \in DOMAIN f THEN [f EXCEPT !.children = h[f.children].elems] ELSE f

ResponseValue(h, r) ==
    LET elems == h[h[r].components].elems
    IN  [version |-> h[r].version,
         root |-> h[r].root,
         components |-> [i \in 1..Len(elems) |-> ComponentValue(h, elems[i])],
         hasData |-> h[r].data # 0,
         data |-> IF h[r].data = 0 THEN EmptyObject ELSE h[h[r].data].f]

------------------------------------------------------------------------------
(* applyUpdate, utils.ts                                                    *)

\* c.id of a component object (undefined when a payload carries no id)
IdOf(f) == IF "id" \in DOMAIN f THEN f.id ELSE "undefined"

\* Variant: const newResponse = response (no copy)
AliasResponse(h, r) == [heap |-> h, addr |-> r]

\* const newResponse = { ...response }
CopyResponse(h, r) == Alloc(h, h[r])

\* Variant: an 'add' whose id is already taken is dropped
AddCaseUnlessPresent(h, nr, r, u) ==
    IF u.component # 0 /\
       \A i \in DOMAIN h[h[r].components].elems :
           IdOf(h[h[h[r].components].elems[i]].f) # IdOf(h[u.component].f)
    THEN LET a == Alloc(h, [k |-> "array",
                            elems |-> Append(h[h[r].components].elems, u.component)])
         IN  [a.heap EXCEPT ![nr].components = a.addr]
    ELSE h

\* case 'add': newResponse.components = [...response.components, update.component]
AddCase(h, nr, r, u) ==
    IF u.component # 0
    THEN LET a == Alloc(h, [k |-> "array",
                            elems |-> Append(h[h[r].components].elems, u.component)])
         IN  [a.heap EXCEPT ![nr].components = a.addr]
    ELSE h

\* the callback of the second pass of 'remove', mapped over the array
RECURSIVE ScrubChildren(_, _, _, _)
ScrubChildren(h, cs, x, acc) ==
    IF cs = <<>> THEN [heap |-> h, addrs |-> acc]
    ELSE LET c == Head(cs)
             f == h[c].f
         IN  IF "children" \in DOMAIN f /\ x \in Range(h[f.children].elems)
             THEN LET ch == Alloc(h, [k |-> "ids",
                                      elems |-> FilterOut(h[f.children].elems, x)])
                      nc == Alloc(ch.heap, [k |-> "component",
                                            f |-> [f EXCEPT !.children = ch.addr]])
                  IN  ScrubChildren(nc.heap, Tail(cs), x, Append(acc, nc.addr))
             ELSE ScrubChildren(h, Tail(cs), x, Append(acc, c))

\* Variant: components.splice(components.findIndex(...), 1), which takes out
\* the first match only, and the last component when there is no match
WithoutTargetSplice(h, cs, x) ==
    LET hits == {i \in DOMAIN cs : IdOf(h[cs[i]].f) = x}
        at   == IF hits = {} THEN Len(cs) ELSE CHOOSE i \in hits : \A j \in hits : i <= j
    IN  [i \in 1..(Len(cs) - 1) |-> IF i < at THEN cs[i] ELSE cs[i + 1]]

\* response.components.filter((c) => c.id !== update.targetId)
WithoutTarget(h, cs, x) == SelectSeq(cs, LAMBDA c : IdOf(h[c].f) # x)

\* Variant: the second pass over the children arrays is left out
RemoveCaseNoScrub(h, nr, r, u) ==
    LET kept == Alloc(h, [k |-> "array",
                          elems |-> WithoutTarget(h, h[h[r].components].elems, u.targetId)])
    IN  [kept.heap EXCEPT ![nr].components = kept.addr]

\* case 'remove'
RemoveCase(h, nr, r, u) ==
    LET kept   == Alloc(h, [k |-> "array",
                            elems |-> WithoutTarget(h, h[h[r].components].elems, u.targetId)])
        h1     == [kept.heap EXCEPT ![nr].components = kept.addr]
        scrub  == ScrubChildren(h1, h1[h1[nr].components].elems, u.targetId, <<>>)
        mapped == Alloc(scrub.heap, [k |-> "array", elems |-> scrub.addrs])
    IN  [mapped.heap EXCEPT ![nr].components = mapped.addr]

\* Variant: props are merged key by key instead of taken from the patch
MergedComponentDeepProps(c, patch) ==
    LET m == Spread(c, patch)
    IN  IF "props" \in DOMAIN c /\ "props" \in DOMAIN patch
        THEN [m EXCEPT !.props = Spread(c.props, patch.props)]
        ELSE m

\* Variant: only the patch and the id are kept, as 'replace' does
MergedComponentPatchOnly(c, patch) == Spread([id |-> c.id], patch)

\* { ...c, ...update.component }
MergedComponent(c, patch) == Spread(c, patch)

\* Variant: { ...update.component }, the id of the old component is not kept
ReplacedComponentNoId(c, patch) == patch

\* { id: c.id, ...update.component }
ReplacedComponent(c, patch) == Spread([id |-> c.id], patch)

\* the callback of 'update' and of 'replace', mapped over the array
RECURSIVE PatchComponents(_, _, _, _)
PatchComponents(h, cs, u, acc) ==
    IF cs = <<>> THEN [heap |-> h, addrs |-> acc]
    ELSE LET c == Head(cs)
         IN  IF IdOf(h[c].f) = u.targetId /\ u.component # 0
             THEN LET nc == Alloc(h, [k |-> "component",
                                      f |-> IF u.operation = "update"
                                            THEN MergedComponent(h[c].f, h[u.component].f)
                                            ELSE ReplacedComponent(h[c].f, h[u.component].f)])
                  IN  PatchComponents(nc.heap, Tail(cs), u, Append(acc, nc.addr))
             ELSE PatchComponents(h, Tail(cs), u, Append(acc, c))

\* case 'update' and case 'replace'
PatchCase(h, nr, r, u) ==
    LET patched == PatchComponents(h, h[h[r].components].elems, u, <<>>)
        mapped  == Alloc(patched.heap, [k |-> "array", elems |-> patched.addrs])
    IN  [mapped.heap EXCEPT ![nr].components = mapped.addr]

\* Variant: a nested mapping is merged key by key instead of replaced
MergedDataDeep(old, new) ==
    [key \in (DOMAIN old) \cup (DOMAIN new) |->
        IF key \notin DOMAIN new THEN old[key]
        ELSE IF key \in DOMAIN old /\ old[key].t = "map" /\ new[key].t = "map"
             THEN Nested(Spread(old[key].m, new[key].m))
             ELSE new[key]]

\* if (update.data) newResponse.data = { ...response.data, ...update.data }
MergedData(old, new) == Spread(old, new)

DataCase(h, nr, r, u) ==
    IF u.data # 0
    THEN LET old == IF h[r].data = 0 THEN EmptyObject ELSE h[h[r].data].f
             d   == Alloc(h, [k |-> "object", f |-> MergedData(old, h[u.data].f)])
         IN  [d.heap EXCEPT ![nr].data = d.addr]
    ELSE h

\* Variant: a default branch that handles an unknown operation as a 'remove'
StructuralCaseDefaultRemove(h, nr, r, u) ==
    CASE u.operation = "add"     -> AddCase(h, nr, r, u)
      [] u.operation \in {"update", "replace"} -> PatchCase(h, nr, r, u)
      [] OTHER                   -> RemoveCase(h, nr, r, u)

\* switch (update.operation): no default branch
StructuralCase(h, nr, r, u) ==
    CASE u.operation = "add"     -> AddCase(h, nr, r, u)
      [] u.operation = "remove"  -> RemoveCase(h, nr, r, u)
      [] u.operation \in {"update", "replace"} -> PatchCase(h, nr, r, u)
      [] OTHER                   -> h

applyUpdate(h, r, u) ==
    LET n  == CopyResponse(h, r)
        h1 == StructuralCase(n.heap, n.addr, r, u)
        h2 == DataCase(h1, n.addr, r, u)
    IN  [heap |-> h2, addr |-> n.addr]

------------------------------------------------------------------------------
(* validateUpdate, schema.ts                                                *)

ValidOperations == {"add", "remove", "update", "replace"}

validateUpdate(u) ==
    LET operationErrors ==
            IF u.operation = "" \/ u.operation \notin ValidOperations
            THEN << [path |-> "operation", code |-> "INVALID_VALUE"] >> ELSE <<>>
        targetErrors ==
            IF u.targetId = ""
            THEN << [path |-> "targetId", code |-> "MISSING_FIELD"] >> ELSE <<>>
        errors == operationErrors \o targetErrors
    IN  [valid |-> Len(errors) = 0, errors |-> errors]

------------------------------------------------------------------------------
(* Inputs                                                                   *)

Ids == {"root", "btn", "x"}

Button == [id |-> "btn", type |-> "button", props |-> [label |-> "Old", disabled |-> "true"]]

SomeData ==
    [count |-> Prim("1"), theme |-> Prim("dark"), user |-> Nested([name |-> "Ann"])]

\* Responses a producer may hand over: a valid one (btn is listed under two
\* parents), and one that was not validated (a dangling child x, no data).
InitialResponses == <<
    [version |-> "0.8", root |-> "root", hasData |-> TRUE, data |-> SomeData,
     components |-> << [id |-> "root", type |-> "container", children |-> <<"x", "btn">>],
                       [id |-> "x", type |-> "card", children |-> <<"btn">>, when |-> "data.count"],
                       Button >>],
    [version |-> "0.8", root |-> "root", hasData |-> FALSE, data |-> EmptyObject,
     components |-> << [id |-> "root", type |-> "container", children |-> <<"btn", "x">>],
                       Button >>] >>

\* Component payloads (Partial<A2UIComponent>)
Patches == <<
    [props |-> [label |-> "Go"]],
    [id |-> "x", type |-> "text", children |-> <<"btn">>],
    [type |-> "card", children |-> <<"x">>] >>

\* Data payloads
DataPatches == <<
    [count |-> Prim("2"), user |-> Nested([age |-> "7"])] >>

UpdateOf(op, t, ci, di) ==
    [operation |-> op, targetId |-> t,
     hasComponent |-> ci # 0, component |-> IF ci = 0 THEN EmptyObject ELSE Patches[ci],
     hasData |-> di # 0, data |-> IF di = 0 THEN EmptyObject ELSE DataPatches[di]]

NoUpdate == UpdateOf("none", "none", 0, 0)

\* The updates tried: 'add' does not read targetId, 'remove' and an operation
\* outside the known four do not read the component payload.
UpdateKeys ==
    ({"add"} \X {"root"} \X (0..Len(Patches)) \X (0..Len(DataPatches)))
    \cup ({"update", "replace"} \X {"btn", "x"} \X (0..Len(Patches)) \X (0..Len(DataPatches)))
    \cup ({"remove"} \X Ids \X {0} \X (0..Len(DataPatches)))
    \cup {<<"remove", "btn", 1, 1>>}
    \cup ({"move"} \X {"btn"} \X {0, 1} \X (0..Len(DataPatches)))

------------------------------------------------------------------------------
(* The caller                                                               *)

Init ==
    \E i \in DOMAIN InitialResponses :
        LET a == AllocResponse(<<>>, InitialResponses[i])
        IN  /\ heap = a.heap
            /\ resp = a.addr
            /\ hist = << [addr |-> a.addr, val |-> ResponseValue(a.heap, a.addr),
                          upd |-> NoUpdate] >>
            /\ call = NoCall

\* response = applyUpdate(response, update)
ApplyUpdate ==
    /\ Len(hist) <= MaxUpdates
    /\ \E key \in UpdateKeys :
        LET uv == UpdateOf(key[1], key[2], key[3], key[4])
            au == AllocUpdate(heap, uv)
            r  == applyUpdate(au.heap, resp, au.update)
        IN  /\ heap' = r.heap
            /\ resp' = r.addr
            /\ hist' = Append(hist, [addr |-> r.addr, val |-> ResponseValue(r.heap, r.addr),
                                     upd |-> uv])
            /\ UNCHANGED call

Next == ApplyUpdate

Spec == Init /\ [][Next]_vars

------------------------------------------------------------------------------
(* The last call: its input, its update and its result                      *)

Called == Len(hist) >= 2
Before == hist[Len(hist) - 1].val
After  == hist[Len(hist)].val
upd    == hist[Len(hist)].upd

IdsOf(v) == {IdOf(v.components[i]) : i \in DOMAIN v.components}
ChildrenOf(c) == IF "children" \in DOMAIN c THEN c.children ELSE <<>>

------------------------------------------------------------------------------
(* Claims                                                                   *)

\* C1: applyUpdate never mutates its input.  Every response the caller has
\* held, read again through its address now, is deep-equal (components
\* sequence, every component, every children list, data) to what was observed
\* when it was obtained, whatever updates were applied since.
C1_InputNeverMutated ==
    \A i \in DOMAIN hist : ResponseValue(heap, hist[i].addr) = hist[i].val

\* Two calls were made, the last one with both payloads, and each returned a
\* response that differs from its input.
C1_Witness ==
    /\ Len(hist) >= 3
    /\ upd.hasComponent /\ upd.hasData
    /\ After # Before
    /\ Before # hist[Len(hist) - 2].val

\* The Response invariant of the data model: root and every children entry
\* name a component, and no two components share an id.
ResponseInvariant(v) ==
    /\ v.root \in IdsOf(v)
    /\ \A i \in DOMAIN v.components : Range(ChildrenOf(v.components[i])) \subseteq IdsOf(v)
    /\ \A i, j \in DOMAIN v.components :
           IdOf(v.components[i]) = IdOf(v.components[j]) => i = j

AllUpdatesValid == \A i \in 2..Len(hist) : validateUpdate(hist[i].upd).valid

\* C2 as stated: from a response that satisfies the Response invariant, every
\* sequence of applyUpdate calls with updates that pass validateUpdate leads to
\* a response that satisfies it.
C2_AnyValidUpdatePreserves ==
    (ResponseInvariant(hist[1].val) /\ AllUpdatesValid) => ResponseInvariant(After)

\* An update that keeps identifiers and references intact on response v: an
\* 'add' brings a component with a new id whose children name components of v
\* or itself, a 'remove' does not target root, an 'update' or 'replace' patch
\* does not change the id and names only components of v as children.
KeepsReferences(u, v) ==
    CASE u.operation = "add" ->
            u.hasComponent =>
                /\ "id" \in DOMAIN u.component
                /\ u.component.id \notin IdsOf(v)
                /\ Range(ChildrenOf(u.component)) \subseteq IdsOf(v) \cup {u.component.id}
      [] u.operation = "remove" -> u.targetId # v.root
      [] u.operation \in {"update", "replace"} ->
            u.hasComponent =>
                /\ "id" \in DOMAIN u.component => u.component.id = u.targetId
                /\ Range(ChildrenOf(u.component)) \subseteq IdsOf(v)
      [] OTHER -> TRUE

\* C2 (amended): from a response that satisfies the Response invariant, every
\* sequence of applyUpdate calls with updates that pass validateUpdate and keep
\* references intact leads only to responses that satisfy it.
C2_ReferenceKeepingUpdatesPreserve ==
    ( /\ ResponseInvariant(hist[1].val)
      /\ AllUpdatesValid
      /\ \A i \in 2..Len(hist) : KeepsReferences(hist[i].upd, hist[i - 1].val) )
    => \A i \in DOMAIN hist : ResponseInvariant(hist[i].val)

\* A component was removed and a component was then added under the freed id,
\* both within the rules, and the invariant holds.
C2_Witness ==
    /\ Len(hist) >= 3
    /\ ResponseInvariant(hist[1].val)
    /\ AllUpdatesValid
    /\ \A i \in 2..Len(hist) : KeepsReferences(hist[i].upd, hist[i - 1].val)
    /\ hist[Len(hist) - 1].upd.operation = "remove"
    /\ Len(Before.components) < Len(hist[Len(hist) - 2].val.components)
    /\ upd.operation = "add" /\ upd.hasComponent
    /\ ResponseInvariant(After)

\* The positions of the input's components sequence that the last update targets.
Targeted == {i \in DOMAIN Before.components : IdOf(Before.components[i]) = upd.targetId}

\* C3 as stated: an 'update' whose patch carries props merges them into the
\* target's props: every key of the existing props that the patch's props
\* does not name is still there, with its value, after the update.
C3_UpdateMergesProps ==
    (Called /\ upd.operation = "update" /\ upd.hasComponent /\ "props" \in DOMAIN upd.component)
    => /\ Len(After.components) = Len(Before.components)
       /\ \A i \in Targeted :
            "props" \in DOMAIN Before.components[i] =>
                \A key \in DOMAIN Before.components[i].props \ DOMAIN upd.component.props :
                    /\ key \in DOMAIN After.components[i].props
                    /\ After.components[i].props[key] = Before.components[i].props[key]

\* C3 (amended): an 'update' whose patch carries props replaces the target's
\* props by the patch's props as a whole: with patch props {label:'Go'} on
\* props {label:'Old', disabled:true} the result's props are exactly
\* {label:'Go'}, disabled is gone; the top-level fields the patch does not
\* name survive.
C3_UpdateReplacesProps ==
    (Called /\ upd.operation = "update" /\ upd.hasComponent /\ "props" \in DOMAIN upd.component)
    => /\ Len(After.components) = Len(Before.components)
       /\ \A i \in Targeted :
            /\ After.components[i].props = upd.component.props
            /\ \A f \in DOMAIN Before.components[i] \ DOMAIN upd.component :
                   /\ f \in DOMAIN After.components[i]
                   /\ After.components[i][f] = Before.components[i][f]

\* The scenario: {props:{label:'Go'}} applied by 'update' to btn, whose props
\* were {label:'Old', disabled:true}; afterwards btn has no disabled.
C3_Witness ==
    /\ Called /\ upd.operation = "update" /\ upd.targetId = "btn"
    /\ upd.hasComponent /\ "props" \in DOMAIN upd.component
    /\ upd.component.props = [label |-> "Go"]
    /\ \E i \in Targeted :
         /\ Before.components[i].props = [label |-> "Old", disabled |-> "true"]
         /\ After.components[i].props.label = "Go"
         /\ "disabled" \notin DOMAIN After.components[i].props
         /\ After.components[i].type = "button"

\* C4: an 'update' with a component patch gives every targeted component
\* exactly the fields of the old component and of the patch, the patch's
\* value where the patch has the field and the old value elsewhere; every
\* other component and the order of the sequence are unchanged.
C4_UpdateShallowMerge ==
    (Called /\ upd.operation = "update" /\ upd.hasComponent)
    => /\ Len(After.components) = Len(Before.components)
       /\ \A i \in DOMAIN Before.components :
            LET old == Before.components[i]
                new == After.components[i]
            IN  IF i \in Targeted
                THEN /\ DOMAIN new = DOMAIN old \cup DOMAIN upd.component
                     /\ \A f \in DOMAIN upd.component : new[f] = upd.component[f]
                     /\ \A f \in DOMAIN old \ DOMAIN upd.component : new[f] = old[f]
                ELSE new = old

\* An 'update' whose patch has type and children but no props or when hit a
\* component that had a when: type and children are the patch's, when and id
\* are the old ones, and another component sits unchanged next to it.
C4_Witness ==
    /\ Called /\ upd.operation = "update" /\ upd.hasComponent
    /\ \E i \in Targeted :
         /\ "when" \in DOMAIN Before.components[i]
         /\ "when" \notin DOMAIN upd.component
         /\ "children" \in DOMAIN upd.component
         /\ After.components[i].children = upd.component.children
         /\ After.components[i].children # Before.components[i].children
         /\ After.components[i].when = Before.components[i].when
    /\ \E j \in DOMAIN Before.components : j \notin Targeted

\* C5: a 'replace' with a component patch leaves, at every targeted position,
\* a component whose id is targetId and whose other fields are all fields of
\* the patch.
C5_ReplaceKeepsId ==
    (Called /\ upd.operation = "replace" /\ upd.hasComponent)
    => /\ Len(After.components) = Len(Before.components)
       /\ \A i \in Targeted :
            /\ After.components[i].id = upd.targetId
            /\ \A f \in DOMAIN After.components[i] :
                   f = "id" \/ (f \in DOMAIN upd.component /\
                                After.components[i][f] = upd.component[f])

\* s without the entries equal to x, the others in their order
Without(s, x) == SelectSeq(s, LAMBDA e : e # x)

\* component c with x taken out of its children list, if it has one
Unlinked(c, x) ==
    IF "children" \in DOMAIN c THEN [c EXCEPT !.children = Without(c.children, x)] ELSE c

\* C6: after a 'remove' of X no component has id X and no children list
\* contains X; the result is the sequence of the components with another id,
\* in their order, each with X taken out of its children list and nothing else
\* changed (the other entries keep their order, a component that did not list
\* X is unchanged).
C6_RemoveDeletesAndScrubs ==
    (Called /\ upd.operation = "remove")
    => LET kept == SelectSeq(Before.components, LAMBDA c : IdOf(c) # upd.targetId)
       IN  /\ upd.targetId \notin IdsOf(After)
           /\ \A i \in DOMAIN After.components :
                  upd.targetId \notin Range(ChildrenOf(After.components[i]))
           /\ Len(After.components) = Len(kept)
           /\ \A i \in DOMAIN kept : After.components[i] = Unlinked(kept[i], upd.targetId)

\* X was the id of two components and was listed, among other entries, in a
\* children list; after the 'remove' both are gone and the list is shorter.
C6_Witness ==
    /\ Called /\ upd.operation = "remove"
    /\ Cardinality(Targeted) = 2
    /\ \E i \in DOMAIN Before.components :
         /\ i \notin Targeted
         /\ upd.targetId \in Range(ChildrenOf(Before.components[i]))
         /\ Len(ChildrenOf(Before.components[i])) >= 2
    /\ Len(After.components) = Len(Before.components) - 2
    /\ upd.targetId \notin IdsOf(After)

\* C7 as stated: a 'remove' whose targetId is the id of no component returns
\* a components sequence deep-equal to the input's.
C7_RemoveAbsentIsNoOp ==
    (Called /\ upd.operation = "remove" /\ Targeted = {})
    => After.components = Before.components

\* C7 (amended): a 'remove' whose targetId is the id of no component deletes
\* no component; it is a no-op when no children list contains targetId, and
\* otherwise (a dangling reference to targetId) the result differs from the
\* input only in that targetId is taken out of the children lists.
C7_RemoveAbsentOnlyScrubs ==
    (Called /\ upd.operation = "remove" /\ Targeted = {})
    => /\ Len(After.components) = Len(Before.components)
       /\ \A i \in DOMAIN Before.components :
              After.components[i] = Unlinked(Before.components[i], upd.targetId)
       /\ (\A i \in DOMAIN Before.components :
               upd.targetId \notin Range(ChildrenOf(Before.components[i])))
          => After.components = Before.components

\* A 'remove' of an id that no component has and no children list contains,
\* on a response with components; nothing changed.
C7_Witness ==
    /\ Called /\ upd.operation = "remove" /\ Targeted = {}
    /\ \A i \in DOMAIN Before.components :
           upd.targetId \notin Range(ChildrenOf(Before.components[i]))
    /\ Len(Before.components) >= 2
    /\ After.components = Before.components

\* old overridden one level deep by new
Overridden(old, new, result) ==
    /\ DOMAIN result = DOMAIN old \cup DOMAIN new
    /\ \A key \in DOMAIN new : result[key] = new[key]
    /\ \A key \in DOMAIN old \ DOMAIN new : result[key] = old[key]

DataAsMerged ==
    IF upd.hasData
    THEN After.hasData /\ Overridden(Before.data, upd.data, After.data)
    ELSE After.hasData = Before.hasData /\ After.data = Before.data

\* C8: an 'update' or 'replace' that matches no component or carries no
\* component payload, and an update whose operation is none of the known
\* four, returns the input's components element for element, and the data
\* payload is merged as for any other update.
C8_SilentNoOp ==
    ( /\ Called
      /\ \/ upd.operation \in {"update", "replace"} /\ (Targeted = {} \/ ~upd.hasComponent)
         \/ upd.operation \notin ValidOperations )
    => /\ After.components = Before.components
       /\ DataAsMerged

\* A 'replace' with a component payload for an id no component has, with a
\* data payload: the components are the same and the data changed.
C8_Witness ==
    /\ Called /\ upd.operation = "replace" /\ Targeted = {}
    /\ upd.hasComponent /\ upd.hasData
    /\ After.components = Before.components
    /\ After.hasData /\ After.data # Before.data

\* C9: an 'add' with a component payload returns the input's components with
\* the payload appended as the last element, whether or not its id is taken;
\* an 'add' without a payload returns the input's components.
C9_AddAppends ==
    (Called /\ upd.operation = "add")
    => IF upd.hasComponent
       THEN /\ Len(After.components) = Len(Before.components) + 1
            /\ \A i \in DOMAIN Before.components : After.components[i] = Before.components[i]
            /\ After.components[Len(After.components)] = upd.component
       ELSE After.components = Before.components

\* An 'add' of a component whose id a component already had: two components
\* with that id afterwards, the new one last and listed by no new parent.
C9_Witness ==
    /\ Called /\ upd.operation = "add" /\ upd.hasComponent
    /\ "id" \in DOMAIN upd.component
    /\ \E i \in DOMAIN Before.components : Before.components[i].id = upd.component.id
    /\ Cardinality({i \in DOMAIN After.components :
                        IdOf(After.components[i]) = upd.component.id}) = 2
    /\ After.components[Len(After.components)] = upd.component

\* C10: whatever the operation, with a data payload the result's data has the
\* keys of the input's data and of the payload, the payload's value under
\* every key of the payload (a nested mapping included, as a whole) and the
\* input's value under every other key; without a data payload the result's
\* data is the input's.
C10_DataShallowMerge == Called => DataAsMerged

\* The input's data had a nested mapping under user and a key theme; the
\* payload had another nested mapping under user and no theme: the result
\* has the payload's mapping alone under user, and theme as before.
C10_Witness ==
    /\ Called /\ upd.hasData /\ Before.hasData
    /\ "user" \in DOMAIN Before.data /\ "user" \in DOMAIN upd.data
    /\ Before.data.user = Nested([name |-> "Ann"])
    /\ After.data.user = Nested([age |-> "7"])
    /\ "theme" \notin DOMAIN upd.data
    /\ After.data.theme = Before.data.theme

------------------------------------------------------------------------------
(* applyUpdates, utils.ts, and the applyUpdates of the useA2UI hook         *)

\* Largest number of updates in one batch.
MaxBatch == 2

Reverse(s) == [i \in 1..Len(s) |-> s[Len(s) + 1 - i]]

\* updates.reduce((res, update) => applyUpdate(res, update), response)
RECURSIVE Reduce(_, _, _)
Reduce(h, r, us) ==
    IF us = <<>> THEN [heap |-> h, addr |-> r]
    ELSE LET a == applyUpdate(h, r, Head(us))
         IN  Reduce(a.heap, a.addr, Tail(us))

\* Variant: reduceRight, the last update is applied first
applyUpdatesFromRight(h, r, us) == Reduce(h, r, Reverse(us))

applyUpdates(h, r, us) == Reduce(h, r, us)

\* useA2UI: setResponse((prev) => { if (!prev) return prev;
\*                                  return updates.reduce((r, u) => applyUpdate(r, u), prev) })
RECURSIVE HookReduce(_, _, _)
HookReduce(h, r, us) ==
    IF us = <<>> THEN [heap |-> h, addr |-> r]
    ELSE LET a == applyUpdate(h, r, Head(us))
         IN  HookReduce(a.heap, a.addr, Tail(us))

handleApplyUpdates(h, prev, us) ==
    IF prev = 0 THEN [heap |-> h, addr |-> prev] ELSE HookReduce(h, prev, us)

\* The array of updates a caller builds.
RECURSIVE AllocUpdates(_, _, _)
AllocUpdates(h, uvs, acc) ==
    IF uvs = <<>> THEN [heap |-> h, updates |-> acc]
    ELSE LET a == AllocUpdate(h, Head(uvs))
         IN  AllocUpdates(a.heap, Tail(uvs), Append(acc, a.update))

\* What is observed of the response state of the hook; it may be null.
ObservedValue(h, r) == IF r = 0 THEN [null |-> TRUE] ELSE ResponseValue(h, r)

BatchKeys == {
    <<"add", "root", 2, 0>>, <<"add", "root", 0, 1>>,
    <<"update", "x", 1, 0>>, <<"update", "btn", 1, 1>>,
    <<"replace", "btn", 3, 1>>,
    <<"remove", "x", 0, 0>>, <<"remove", "btn", 0, 0>>,
    <<"move", "btn", 1, 1>> }

Batches == UNION {[1..n -> BatchKeys] : n \in 0..MaxBatch}

\* useA2UI(options): initialResponse is null or a response, which is cloned
InitHook ==
    /\ call = NoCall
    /\ \/ Init
       \/ /\ heap = <<>>
          /\ resp = 0
          /\ hist = << [addr |-> 0, val |-> ObservedValue(<<>>, 0), upd |-> NoUpdate] >>

\* applyUpdates(updates) of the hook, once
HandleApplyUpdates ==
    /\ call.fn = "none"
    /\ \E batch \in Batches :
        LET uvs == [i \in DOMAIN batch |->
                        UpdateOf(batch[i][1], batch[i][2], batch[i][3], batch[i][4])]
            au  == AllocUpdates(heap, uvs, <<>>)
            r   == handleApplyUpdates(au.heap, resp, au.updates)
        IN  /\ heap' = r.heap
            /\ resp' = r.addr
            /\ hist' = Append(hist, [addr |-> r.addr, val |-> ObservedValue(r.heap, r.addr),
                                     upd |-> NoUpdate])
            /\ call' = [fn |-> "applyUpdates", prev |-> resp, values |-> uvs,
                        updates |-> au.updates, result |-> r.addr]

NextHook == HandleApplyUpdates

SpecHook == InitHook /\ [][NextHook]_vars

Front(s) == SubSeq(s, 1, Len(s) - 1)

\* C11: applyUpdates is the left fold of applyUpdate.  For the batch the hook
\* was given and the response it had: the core applyUpdates returns a response
\* deep-equal to the hook's; for the empty batch it is deep-equal to the
\* input; for a batch us ++ [u] it is deep-equal to applyUpdate applied to
\* applyUpdates of us, and u.
C11_LeftFold ==
    (call.fn = "applyUpdates" /\ call.prev # 0)
    => LET core == applyUpdates(heap, call.prev, call.updates)
       IN  /\ ResponseValue(core.heap, core.addr) = After
           /\ call.updates = <<>> => After = Before
           /\ call.updates # <<>> =>
                LET front == applyUpdates(heap, call.prev, Front(call.updates))
                    last  == applyUpdate(front.heap, front.addr,
                                         call.updates[Len(call.updates)])
                IN  ResponseValue(last.heap, last.addr) = After

\* The batch was an 'add' of x followed by an 'update' of x: the added
\* component, the last one, has the props of the patch.
C11_Witness ==
    /\ call.fn = "applyUpdates" /\ call.prev # 0
    /\ Len(call.values) = 2
    /\ call.values[1].operation = "add" /\ call.values[1].hasComponent
    /\ call.values[1].component.id = "x"
    /\ call.values[2].operation = "update" /\ call.values[2].targetId = "x"
    /\ call.values[2].hasComponent
    /\ "props" \notin DOMAIN call.values[1].component
    /\ Len(After.components) = Len(Before.components) + 1
    /\ After.components[Len(After.components)].props = call.values[2].component.props

------------------------------------------------------------------------------
(* JavaScript values of the binding engine; a string is a TLA+ string, the  *)
(* keys of an object are its own enumerable properties                      *)

Undefined == [t |-> "undefined"]
Null      == [t |-> "null"]
Bool(b)   == [t |-> "boolean", b |-> b]
Num(n)    == [t |-> "number", n |-> n]
Str(s)    == [t |-> "string", s |-> s]
Obj(f)    == [t |-> "object", f |-> f]
Arr(a)    == [t |-> "array", a |-> a]

\* Boolean(v)
Truthy(v) ==
    CASE v.t \in {"undefined", "null"} -> FALSE
      [] v.t = "boolean" -> v.b
      [] v.t = "number"  -> v.n # 0
      [] v.t = "string"  -> v.s # ""
      [] OTHER -> TRUE

\* the property names "0", "1", ... of an array or a string of length n
IndexKeys(n) == {ToString(i) : i \in 0..(n - 1)}
IndexOfKey(key, n) == CHOOSE i \in 0..(n - 1) : ToString(i) = key

\* v[key]: an own property of an object, an element or the length of an array
\* or of a string; properties inherited from a prototype are not modelled
GetProp(v, key) ==
    CASE v.t = "object" -> IF key \in DOMAIN v.f THEN v.f[key] ELSE Undefined
      [] v.t = "array"  -> IF key \in IndexKeys(Len(v.a)) THEN v.a[IndexOfKey(key, Len(v.a)) + 1]
                           ELSE IF key = "length" THEN Num(Len(v.a)) ELSE Undefined
      [] v.t = "string" -> IF key \in IndexKeys(Len(v.s))
                           THEN Str(SubSeq(v.s, IndexOfKey(key, Len(v.s)) + 1,
                                           IndexOfKey(key, Len(v.s)) + 1))
                           ELSE IF key = "length" THEN Num(Len(v.s)) ELSE Undefined
      [] OTHER -> Undefined

\* what { ...v } copies: the own enumerable properties of v
OwnEnumerable(v) ==
    CASE v.t = "object" -> v.f
      [] v.t = "array"  -> [key \in IndexKeys(Len(v.a)) |-> GetProp(v, key)]
      [] v.t = "string" -> [key \in IndexKeys(Len(v.s)) |-> GetProp(v, key)]
      [] OTHER -> EmptyObject

\* s.indexOf(sep, from), 1-based, 0 when there is none
IndexOf(s, sep, from) ==
    LET hits == {i \in from..(Len(s) - Len(sep) + 1) : SubSeq(s, i, i + Len(sep) - 1) = sep}
    IN  IF hits = {} THEN 0 ELSE CHOOSE i \in hits : \A j \in hits : i <= j

\* s.split(sep) for a non-empty separator
RECURSIVE SplitFrom(_, _, _)
SplitFrom(s, sep, from) ==
    LET at == IndexOf(s, sep, from)
    IN  IF at = 0 THEN << SubSeq(s, from, Len(s)) >>
        ELSE << SubSeq(s, from, at - 1) >> \o SplitFrom(s, sep, at + Len(sep))

Split(s, sep) == SplitFrom(s, sep, 1)

\* parts.join(sep)
RECURSIVE Join(_, _)
Join(parts, sep) ==
    IF parts = <<>> THEN ""
    ELSE IF Len(parts) = 1 THEN parts[1]
    ELSE parts[1] \o sep \o Join(Tail(parts), sep)

------------------------------------------------------------------------------
(* resolveBinding and setBinding, utils.ts                                  *)

\* the loop of resolveBinding
RECURSIVE Walk(_, _)
Walk(current, parts) ==
    IF parts = <<>> THEN current
    ELSE IF current.t \in {"null", "undefined"} THEN Undefined
    ELSE IF current.t \in {"object", "array"} THEN Walk(GetProp(current, Head(parts)), Tail(parts))
    ELSE Undefined

\* Variant: the typeof check is left out, a string is indexed too
RECURSIVE WalkAnything(_, _)
WalkAnything(current, parts) ==
    IF parts = <<>> THEN current
    ELSE IF current.t \in {"null", "undefined"} THEN Undefined
    ELSE WalkAnything(GetProp(current, Head(parts)), Tail(parts))

resolveBindingNoTypeCheck(data, path) == WalkAnything(data, Split(path, "."))

resolveBinding(data, path) == Walk(data, Split(path, "."))

\* Variant: { [key]: value, ...data }, a key the data has keeps its value
AssignKeySpreadLast(data, key, value) == Obj(Spread(key :> value, OwnEnumerable(data)))

\* { ...data, [key]: value }
AssignKey(data, key, value) == Obj(Spread(OwnEnumerable(data), key :> value))

\* (data[first] as Record<string, unknown>) || {}
NestedOrEmpty(data, first) ==
    IF Truthy(GetProp(data, first)) THEN GetProp(data, first) ELSE Obj(EmptyObject)

RECURSIVE setBinding(_, _, _)
setBinding(data, path, value) ==
    LET parts == Split(path, ".")
    IN  IF Len(parts) = 1 THEN AssignKey(data, path, value)
        ELSE LET first == Head(parts)
                 rest  == Tail(parts)
             IN  AssignKey(data, first,
                           setBinding(NestedOrEmpty(data, first), Join(rest, "."), value))

\* Data mappings, paths and values the binding functions are called with.
BindingData == <<
    Obj(EmptyObject),
    Obj([a    |-> Obj([b |-> Num(1), c |-> Str("keep")]),
         flag |-> Bool(TRUE),
         s    |-> Str("ab"),
         n    |-> Num(0),
         z    |-> Null,
         list |-> Arr(<< Num(7), Obj([k |-> Str("v")]) >>)]),
    Obj([a |-> Num(5), missing |-> Obj([path |-> Undefined])]) >>

BindingPaths == {
    "a", "a.b", "a.c", "a.b.c", "a.x.y", "missing.path", "flag.x", "n.x", "z.q",
    "s.0", "s.x", "s.length", "list.0", "list.1.k", "list.length", "list.5", "", "a..b" }

BindingValues == << Num(5), Undefined, Str("v"), Obj([q |-> Num(1)]) >>

InitBinding ==
    /\ heap = <<>>
    /\ resp = 0
    /\ hist = <<>>
    /\ call = NoCall

CallSetBinding ==
    /\ \E d \in DOMAIN BindingData, path \in BindingPaths, v \in DOMAIN BindingValues :
        call' = [fn |-> "setBinding", data |-> BindingData[d], path |-> path,
                 value |-> BindingValues[v],
                 result |-> setBinding(BindingData[d], path, BindingValues[v])]
    /\ UNCHANGED <<heap, resp, hist>>

CallResolveBinding ==
    /\ \E d \in DOMAIN BindingData, path \in BindingPaths :
        call' = [fn |-> "resolveBinding", data |-> BindingData[d], path |-> path,
                 result |-> resolveBinding(BindingData[d], path)]
    /\ UNCHANGED <<heap, resp, hist>>

NextBinding == CallSetBinding \/ CallResolveBinding

SpecBinding == InitBinding /\ [][NextBinding]_vars

\* C12: reading the path that was just written gives the value written, for
\* every data mapping, every dotted path and every value.
C12_WriteThenRead ==
    call.fn = "setBinding" => resolveBinding(call.result, call.path) = call.value

\* A write of three segments through an intermediate that held a number: the
\* number is replaced by a mapping that holds the value.
C12_Witness ==
    /\ call.fn = "setBinding"
    /\ Len(Split(call.path, ".")) = 3
    /\ resolveBinding(call.data, "a.b") = Num(1)
    /\ call.path = "a.b.c"
    /\ call.value = Num(5)
    /\ resolveBinding(call.result, "a.b.c") = Num(5)
    /\ resolveBinding(call.result, "a.b").t = "object"

\* The value stored under a sequence of segments, read from the last segment
\* back: the holder of the last segment is what the segments before it store,
\* and only a holder of one of the given kinds has members.
RECURSIVE StoredAt(_, _, _)
StoredAt(data, parts, kinds) ==
    IF parts = <<>> THEN data
    ELSE LET holder == StoredAt(data, Front(parts), kinds)
         IN  IF holder.t \in kinds THEN GetProp(holder, parts[Len(parts)]) ELSE Undefined

------------------------------------------------------------------------------
(* Strings, JSON.stringify and JSON.parse as evaluateCondition uses them    *)

\* the character at position i (1-based), "" outside the string
CharAt(s, i) == IF i >= 1 /\ i <= Len(s) THEN SubSeq(s, i, i) ELSE ""

StartsWith(s, i, lit) == i >= 1 /\ i + Len(lit) - 1 <= Len(s) /\ SubSeq(s, i, i + Len(lit) - 1) = lit

\* s.includes(sub)
Includes(s, sub) == IndexOf(s, sub, 1) # 0

\* \w of a regular expression
WordChars == "abcdefghijklmnopqrstuvwxyzABCDEFGHIJKLMNOPQRSTUVWXYZ0123456789_"
IsWord(c) == c # "" /\ Includes(WordChars, c)

DigitChars == "0123456789"
IsDigit(c) == c # "" /\ Includes(DigitChars, c)
DigitValue(c) == IndexOf(DigitChars, c, 1) - 1

IsSpace(c) == c \in {" ", "\t", "\n", "\r"}

\* s.trim()
RECURSIVE TrimStart(_)
TrimStart(s) == IF IsSpace(CharAt(s, 1)) THEN TrimStart(SubSeq(s, 2, Len(s))) ELSE s
RECURSIVE TrimEnd(_)
TrimEnd(s) == IF IsSpace(CharAt(s, Len(s))) THEN TrimEnd(SubSeq(s, 1, Len(s) - 1)) ELSE s
Trim(s) == TrimEnd(TrimStart(s))

\* s.replace(sub, by) with a string pattern: the first occurrence only
ReplaceFirst(s, sub, by) ==
    LET at == IndexOf(s, sub, 1)
    IN  IF at = 0 THEN s
        ELSE SubSeq(s, 1, at - 1) \o by \o SubSeq(s, at + Len(sub), Len(s))

\* the text of a string between the quotes JSON.stringify puts around it
RECURSIVE Escape(_)
Escape(s) ==
    IF s = "" THEN ""
    ELSE LET c == CharAt(s, 1)
         IN  (IF c = "\"" THEN "\\\"" ELSE IF c = "\\" THEN "\\\\" ELSE c)
             \o Escape(SubSeq(s, 2, Len(s)))

\* the members of a set in some fixed order (an object's keys; the order of
\* the keys changes neither whether the text parses nor what it parses to)
RECURSIVE KeysOf(_)
KeysOf(S) == IF S = {} THEN <<>> ELSE LET k == CHOOSE k \in S : TRUE IN << k >> \o KeysOf(S \ {k})

\* JSON.stringify(v) for a value that is not undefined
RECURSIVE Stringify(_)
RECURSIVE StringifyElements(_)
RECURSIVE StringifyMembers(_, _)

StringifyElements(a) ==
    IF a = <<>> THEN ""
    ELSE (IF Head(a).t = "undefined" THEN "null" ELSE Stringify(Head(a)))
         \o (IF Len(a) = 1 THEN "" ELSE "," \o StringifyElements(Tail(a)))

StringifyMembers(f, keys) ==
    IF keys = <<>> THEN ""
    ELSE "\"" \o Escape(Head(keys)) \o "\":" \o Stringify(f[Head(keys)])
         \o (IF Len(keys) = 1 THEN "" ELSE "," \o StringifyMembers(f, Tail(keys)))

Stringify(v) ==
    CASE v.t = "null"    -> "null"
      [] v.t = "boolean" -> IF v.b THEN "true" ELSE "false"
      [] v.t = "number"  -> ToString(v.n)
      [] v.t = "string"  -> "\"" \o Escape(v.s) \o "\""
      [] v.t = "array"   -> "[" \o StringifyElements(v.a) \o "]"
      [] v.t = "object"  ->
            "{" \o StringifyMembers(v.f, KeysOf({k \in DOMAIN v.f : v.f[k].t # "undefined"})) \o "}"

\* what the replace callback's return value becomes in the text:
\* JSON.stringify(undefined) is undefined, and String(undefined) "undefined"
StringifyForText(v) == IF v.t = "undefined" THEN "undefined" ELSE Stringify(v)

\* JSON.parse: the value and the position after it, or ok = FALSE where
\* JSON.parse throws a SyntaxError
ParseError == [ok |-> FALSE, value |-> Undefined, next |-> 0]
Parsed(v, next) == [ok |-> TRUE, value |-> v, next |-> next]

RECURSIVE SkipSpace(_, _)
SkipSpace(s, i) == IF IsSpace(CharAt(s, i)) THEN SkipSpace(s, i + 1) ELSE i

RECURSIVE ParseDigits(_, _, _)
ParseDigits(s, i, n) ==
    IF IsDigit(CharAt(s, i)) THEN ParseDigits(s, i + 1, 10 * n + DigitValue(CharAt(s, i)))
    ELSE [n |-> n, next |-> i]

\* a number text: -?(0|[1-9][0-9]*); texts with a fraction or an exponent
\* are not in the model, the conditions and data evaluated have none
ParseNumber(s, i) ==
    LET neg == CharAt(s, i) = "-"
        j   == IF neg THEN i + 1 ELSE i
        d   == IF CharAt(s, j) = "0" THEN [n |-> 0, next |-> j + 1] ELSE ParseDigits(s, j, 0)
    IN  IF ~IsDigit(CharAt(s, j)) THEN ParseError
        ELSE CASE CharAt(s, d.next) \notin {".", "e", "E"} ->
                    Parsed(Num(IF neg THEN 0 - d.n ELSE d.n), d.next)

\* a string text from its opening quote; of the escapes, \" \\ and \/ are in
\* the model, the strings evaluated hold no control character
RECURSIVE ParseChars(_, _, _)
ParseChars(s, i, acc) ==
    LET c == CharAt(s, i)
    IN  IF c = "" THEN ParseError
        ELSE IF c = "\"" THEN Parsed(Str(acc), i + 1)
        ELSE IF c = "\\"
             THEN CASE CharAt(s, i + 1) \in {"\"", "\\", "/"} ->
                            ParseChars(s, i + 2, acc \o CharAt(s, i + 1))
                    [] CharAt(s, i + 1) \notin {"\"", "\\", "/", "b", "f", "n", "r", "t", "u"} ->
                            ParseError
        ELSE ParseChars(s, i + 1, acc \o c)

RECURSIVE ParseValue(_, _)
RECURSIVE ParseElements(_, _, _)
RECURSIVE ParseMembers(_, _, _)

\* after "[" or ",": a value, then "," or "]"
ParseElements(s, i, acc) ==
    LET v == ParseValue(s, SkipSpace(s, i))
        j == SkipSpace(s, v.next)
    IN  IF ~v.ok THEN ParseError
        ELSE IF CharAt(s, j) = "," THEN ParseElements(s, j + 1, Append(acc, v.value))
        ELSE IF CharAt(s, j) = "]" THEN Parsed(Arr(Append(acc, v.value)), j + 1)
        ELSE ParseError

\* after "{" or ",": a string, ":", a value, then "," or "}"
ParseMembers(s, i, acc) ==
    LET k == IF CharAt(s, SkipSpace(s, i)) = "\"" THEN ParseChars(s, SkipSpace(s, i) + 1, "")
             ELSE ParseError
        c == SkipSpace(s, k.next)
        v == ParseValue(s, SkipSpace(s, c + 1))
        j == SkipSpace(s, v.next)
    IN  IF ~k.ok \/ CharAt(s, c) # ":" THEN ParseError
        ELSE IF ~v.ok THEN ParseError
        ELSE IF CharAt(s, j) = "," THEN ParseMembers(s, j + 1, Spread(acc, k.value.s :> v.value))
        ELSE IF CharAt(s, j) = "}" THEN Parsed(Obj(Spread(acc, k.value.s :> v.value)), j + 1)
        ELSE ParseError

ParseValue(s, i) ==
    LET c == CharAt(s, i)
    IN  IF StartsWith(s, i, "true") THEN Parsed(Bool(TRUE), i + 4)
        ELSE IF StartsWith(s, i, "false") THEN Parsed(Bool(FALSE), i + 5)
        ELSE IF StartsWith(s, i, "null") THEN Parsed(Null, i + 4)
        ELSE IF c = "\"" THEN ParseChars(s, i + 1, "")
        ELSE IF c = "-" \/ IsDigit(c) THEN ParseNumber(s, i)
        ELSE IF c = "["
             THEN IF CharAt(s, SkipSpace(s, i + 1)) = "]"
                  THEN Parsed(Arr(<<>>), SkipSpace(s, i + 1) + 1)
                  ELSE ParseElements(s, i + 1, <<>>)
        ELSE IF c = "{"
             THEN IF CharAt(s, SkipSpace(s, i + 1)) = "}"
                  THEN Parsed(Obj(EmptyObject), SkipSpace(s, i + 1) + 1)
                  ELSE ParseMembers(s, i + 1, EmptyObject)
        ELSE ParseError

\* JSON.parse(text)
JSONParse(text) ==
    LET v == ParseValue(text, SkipSpace(text, 1))
    IN  IF v.ok /\ SkipSpace(text, v.next) = Len(text) + 1 THEN v ELSE ParseError

------------------------------------------------------------------------------
(* evaluateCondition, utils.ts                                              *)

\* /data\.(\w+(?:\.\w+)*)/ matches at p: "data." and a word character
RefAt(s, p) == StartsWith(s, p, "data.") /\ IsWord(CharAt(s, p + 5))

\* the leftmost match at or after from, 0 when there is none
NextRef(s, from) ==
    LET hits == {p \in from..Len(s) : RefAt(s, p)}
    IN  IF hits = {} THEN 0 ELSE CHOOSE p \in hits : \A q \in hits : p <= q

\* \w+ is greedy: the position after the last word character from i on
RECURSIVE WordEnd(_, _)
WordEnd(s, i) == IF IsWord(CharAt(s, i)) THEN WordEnd(s, i + 1) ELSE i

\* (?:\.\w+)* is greedy: every further "." followed by a word is taken
RECURSIVE PathEnd(_, _)
PathEnd(s, e) ==
    IF CharAt(s, e) = "." /\ IsWord(CharAt(s, e + 1)) THEN PathEnd(s, WordEnd(s, e + 1)) ELSE e

\* condition.replace(/data\.(\w+(?:\.\w+)*)/g, (_, path) => JSON.stringify(resolveBinding(data, path)))
RECURSIVE SubstituteRefs(_, _, _)
SubstituteRefs(s, from, data) ==
    LET at == NextRef(s, from)
        e  == PathEnd(s, WordEnd(s, at + 5))
    IN  IF at = 0 THEN SubSeq(s, from, Len(s))
        ELSE SubSeq(s, from, at - 1)
             \o StringifyForText(resolveBinding(data, SubSeq(s, at + 5, e - 1)))
             \o SubstituteRefs(s, e, data)

\* a === b on two values JSON.parse returned: two parsed objects or arrays are
\* never the same object
StrictEquals(a, b) == a.t \notin {"object", "array"} /\ a = b

\* what the try block does: it returns a boolean or an exception is thrown
Returned(b) == [threw |-> FALSE, value |-> b]
Thrown == [threw |-> TRUE, value |-> FALSE]

\* JSON.parse(left) === JSON.parse(right), the left side parsed first
ParsedEqual(left, right) ==
    IF ~JSONParse(left).ok \/ ~JSONParse(right).ok THEN Thrown
    ELSE Returned(StrictEquals(JSONParse(left).value, JSONParse(right).value))

\* parts.every((p) => JSON.parse(p)): stops at the first falsy part
RECURSIVE Every(_)
Every(parts) ==
    IF parts = <<>> THEN Returned(TRUE)
    ELSE IF ~JSONParse(Trim(Head(parts))).ok THEN Thrown
    ELSE IF ~Truthy(JSONParse(Trim(Head(parts))).value) THEN Returned(FALSE)
    ELSE Every(Tail(parts))

\* parts.some((p) => JSON.parse(p)): stops at the first truthy part
RECURSIVE Some(_)
Some(parts) ==
    IF parts = <<>> THEN Returned(FALSE)
    ELSE IF ~JSONParse(Trim(Head(parts))).ok THEN Thrown
    ELSE IF Truthy(JSONParse(Trim(Head(parts))).value) THEN Returned(TRUE)
    ELSE Some(Tail(parts))

TryEvaluate(condition, data) ==
    LET evaluated == SubstituteRefs(condition, 1, data)
    IN  IF Includes(evaluated, "===")
        THEN ParsedEqual(Trim(Split(evaluated, "===")[1]), Trim(Split(evaluated, "===")[2]))
        ELSE IF Includes(evaluated, "!==")
        THEN LET r == ParsedEqual(Trim(Split(evaluated, "!==")[1]), Trim(Split(evaluated, "!==")[2]))
             IN  IF r.threw THEN Thrown ELSE Returned(~r.value)
        ELSE IF Includes(evaluated, "&&") THEN Every(Split(evaluated, "&&"))
        ELSE IF Includes(evaluated, "||") THEN Some(Split(evaluated, "||"))
        ELSE Returned(Truthy(resolveBinding(data, ReplaceFirst(condition, "data.", ""))))

\* catch { return true }
evaluateCondition(condition, data) ==
    IF TryEvaluate(condition, data).threw THEN TRUE ELSE TryEvaluate(condition, data).value

\* Conditions and data evaluateCondition is called with.
ComparedPaths == {"flag", "n", "s", "z", "a.b"}
Literals == {"true", "false", "0", "1", "null", "\"x\"", "\"a===b\""}

Conditions ==
    {"data." \o p \o op \o l : p \in ComparedPaths, op \in {" === ", " !== "}, l \in Literals}
    \cup {"data." \o p : p \in ComparedPaths}
    \cup {"flag", "s", "data.a", "data.list", "data.missing", "data.missing === 1",
          "data.a === data.a", "data.flag === data.flag", "data.n===1",
          "not a valid $$ expr", "{bad json === 1",
          "false && garbage", "true && garbage", "garbage && false",
          "false || garbage", "true || garbage",
          "data.flag && data.n", "data.flag || data.n",
          "data.flag && data.missing", "data.n || data.missing",
          "true && false || true", "false && true || true",
          "1 === 1 && true", "data.flag === true !== false"}

ConditionData == <<
    Obj(EmptyObject),
    Obj([flag |-> Bool(TRUE), n |-> Num(1), s |-> Str("x"), z |-> Null,
         a |-> Obj([b |-> Num(1)]), list |-> Arr(<< Num(7) >>)]),
    Obj([flag |-> Bool(FALSE), n |-> Num(0), s |-> Str("a===b"), z |-> Null,
         a |-> Obj([b |-> Num(0)]), list |-> Arr(<<>>)]),
    Obj([flag |-> Num(1), n |-> Str(""), s |-> Str(""), z |-> Bool(FALSE),
         a |-> Obj([b |-> Str("x")])]) >>

InitCondition ==
    /\ heap = <<>>
    /\ resp = 0
    /\ hist = <<>>
    /\ call = NoCall

\* one call in a behaviour: the function is pure, a call sees no earlier call
CallEvaluateCondition ==
    /\ call.fn = "none"
    /\ \E condition \in Conditions, d \in DOMAIN ConditionData :
        call' = [fn |-> "evaluateCondition", condition |-> condition, data |-> ConditionData[d],
                 result |-> evaluateCondition(condition, ConditionData[d])]
    /\ UNCHANGED <<heap, resp, hist>>

NextCondition == CallEvaluateCondition

SpecCondition == InitCondition /\ [][NextCondition]_vars

\* C13: a text that is no valid expression, evaluated against the empty
\* mapping, gives true (fail-open).
C13_InvalidExpressionIsTrue ==
    (/\ call.fn = "evaluateCondition"
     /\ call.condition = "not a valid $$ expr"
     /\ call.data = Obj(EmptyObject))
    => call.result = TRUE

\* the operator evaluateCondition recognises in a substituted text, "" if none
OperatorOf(evaluated) ==
    IF Includes(evaluated, "===") THEN "==="
    ELSE IF Includes(evaluated, "!==") THEN "!=="
    ELSE IF Includes(evaluated, "&&") THEN "&&"
    ELSE IF Includes(evaluated, "||") THEN "||"
    ELSE ""

\* the operands it reads: the two sides of an equality, every part of && and ||
OperandsOf(evaluated) ==
    LET parts == Split(evaluated, OperatorOf(evaluated))
    IN  IF OperatorOf(evaluated) \in {"===", "!=="} THEN << Trim(parts[1]), Trim(parts[2]) >>
        ELSE [i \in 1..Len(parts) |-> Trim(parts[i])]

\* C14: whenever an operand of the recognised operator fails to parse as JSON
\* after the substitution, the result is true; so it is for && with a first
\* operand false and a second that does not parse.
C14_UnparsableOperandIsTrue ==
    call.fn = "evaluateCondition" =>
        LET evaluated == SubstituteRefs(call.condition, 1, call.data)
        IN  (/\ OperatorOf(evaluated) # ""
             /\ \E i \in DOMAIN OperandsOf(evaluated) : ~JSONParse(OperandsOf(evaluated)[i]).ok)
            => call.result = TRUE

\* C15: "data.<path> === <literal>", the path resolving to a boolean, a number,
\* a string or null, is true exactly when the value equals the literal, !==
\* is its negation, and a path alone gives the truthiness of its value.
C15_EqualityAndTruthiness ==
    call.fn = "evaluateCondition" =>
        \A p \in ComparedPaths :
            LET v == resolveBinding(call.data, p)
            IN  /\ \A l \in Literals :
                    v.t \in {"boolean", "number", "string", "null"} =>
                        /\ call.condition = "data." \o p \o " === " \o l
                              => call.result = (v = JSONParse(l).value)
                        /\ call.condition = "data." \o p \o " !== " \o l
                              => call.result = (v # JSONParse(l).value)
                /\ call.condition = "data." \o p => call.result = Truthy(v)

------------------------------------------------------------------------------
(* validateResponse, validateComponent and validateUpdate on any value,     *)
(* schema.ts; an error is its path and its code, the message is left out    *)

ValidationError(path, code) == [path |-> path, code |-> code]

\* value && typeof value === 'object'
IsObject(v) == v.t \in {"object", "array"}

\* key in v, for a key that no prototype holds
HasProp(v, key) ==
    CASE v.t = "object" -> key \in DOMAIN v.f
      [] v.t = "array"  -> key \in IndexKeys(Len(v.a)) \cup {"length"}
      [] OTHER -> FALSE

\* !v || typeof v !== 'string'
NotAString(v) == ~Truthy(v) \/ v.t # "string"

\* `${path}[${index}]` and `${path}.${field}`
AtIndex(path, index) == path \o "[" \o ToString(index) \o "]"
AtField(path, field) == path \o "." \o field

\* Variant: return at the first error found
validateComponentFirstErrorOnly(component, path) ==
    IF ~IsObject(component) THEN << ValidationError(path, "INVALID_TYPE") >>
    ELSE IF NotAString(GetProp(component, "id"))
         THEN << ValidationError(AtField(path, "id"), "MISSING_FIELD") >>
    ELSE IF NotAString(GetProp(component, "type"))
         THEN << ValidationError(AtField(path, "type"), "MISSING_FIELD") >>
    ELSE IF GetProp(component, "children").t \notin {"undefined", "array"}
         THEN << ValidationError(AtField(path, "children"), "INVALID_TYPE") >>
    ELSE IF GetProp(component, "props").t \notin {"undefined", "object", "array"}
         THEN << ValidationError(AtField(path, "props"), "INVALID_TYPE") >>
    ELSE <<>>

validateComponent(component, path) ==
    IF ~IsObject(component) THEN << ValidationError(path, "INVALID_TYPE") >>
    ELSE (IF NotAString(GetProp(component, "id"))
          THEN << ValidationError(AtField(path, "id"), "MISSING_FIELD") >> ELSE <<>>)
      \o (IF NotAString(GetProp(component, "type"))
          THEN << ValidationError(AtField(path, "type"), "MISSING_FIELD") >> ELSE <<>>)
      \o (IF GetProp(component, "children").t \notin {"undefined", "array"}
          THEN << ValidationError(AtField(path, "children"), "INVALID_TYPE") >> ELSE <<>>)
      \o (IF GetProp(component, "props").t \notin {"undefined", "object", "array"}
          THEN << ValidationError(AtField(path, "props"), "INVALID_TYPE") >> ELSE <<>>)

\* componentIds.has(id): the ids added so far, compared as a Set compares
SetHas(ids, id) == \E k \in DOMAIN ids : StrictEquals(ids[k], id)

\* comp && typeof comp === 'object' && 'id' in comp
CarriesId(comp) == IsObject(comp) /\ HasProp(comp, "id")

\* Variant: an id is compared with the id of the component just before only
DuplicateErrorsAdjacentOnly(ids, comp, index) ==
    IF CarriesId(comp) /\ ids # <<>> /\ StrictEquals(ids[Len(ids)], GetProp(comp, "id"))
    THEN << ValidationError(AtField(AtIndex("components", index), "id"), "DUPLICATE_ID") >>
    ELSE <<>>

\* if (componentIds.has(id)) errors.push(... DUPLICATE_ID ...)
DuplicateErrors(ids, comp, index) ==
    IF CarriesId(comp) /\ SetHas(ids, GetProp(comp, "id"))
    THEN << ValidationError(AtField(AtIndex("components", index), "id"), "DUPLICATE_ID") >>
    ELSE <<>>

\* the first forEach over components, from index on: the errors pushed and
\* the ids in componentIds at the end
RECURSIVE ComponentPass(_, _, _)
ComponentPass(components, index, ids) ==
    IF index = Len(components) THEN [errors |-> <<>>, ids |-> ids]
    ELSE LET comp == components[index + 1]
             rest == ComponentPass(components, index + 1,
                                   IF CarriesId(comp) THEN Append(ids, GetProp(comp, "id")) ELSE ids)
         IN  [errors |-> validateComponent(comp, AtIndex("components", index))
                         \o DuplicateErrors(ids, comp, index)
                         \o rest.errors,
              ids |-> rest.ids]

\* Variant: a root that names no component is not reported
RootErrorsNone(root, ids) == <<>>

\* if (res.root && typeof res.root === 'string' && !componentIds.has(res.root))
RootErrors(root, ids) ==
    IF Truthy(root) /\ root.t = "string" /\ ~SetHas(ids, root)
    THEN << ValidationError("root", "INVALID_REFERENCE") >> ELSE <<>>

\* children.forEach((childId, childIndex) => ...), from childIndex on
RECURSIVE ChildErrors(_, _, _, _)
ChildErrors(children, index, childIndex, ids) ==
    IF childIndex = Len(children) THEN <<>>
    ELSE (IF ~SetHas(ids, children[childIndex + 1])
          THEN << ValidationError(AtIndex(AtField(AtIndex("components", index), "children"),
                                          childIndex), "INVALID_REFERENCE") >>
          ELSE <<>>)
         \o ChildErrors(children, index, childIndex + 1, ids)

\* the second forEach over components, from index on
RECURSIVE ChildrenPass(_, _, _)
ChildrenPass(components, index, ids) ==
    IF index = Len(components) THEN <<>>
    ELSE LET comp == components[index + 1]
         IN  (IF IsObject(comp) /\ HasProp(comp, "children") /\ GetProp(comp, "children").t = "array"
              THEN ChildErrors(GetProp(comp, "children").a, index, 0, ids) ELSE <<>>)
             \o ChildrenPass(components, index + 1, ids)

\* Variant: a child is looked up among the components before its parent and
\* the parent itself, as if the references were checked in the first pass
RECURSIVE ChildrenPassSeenSoFar(_, _, _)
ChildrenPassSeenSoFar(components, index, ids) ==
    IF index = Len(components) THEN <<>>
    ELSE LET comp == components[index + 1]
             seen == ComponentPass(SubSeq(components, 1, index + 1), 0, <<>>).ids
         IN  (IF IsObject(comp) /\ HasProp(comp, "children") /\ GetProp(comp, "children").t = "array"
              THEN ChildErrors(GetProp(comp, "children").a, index, 0, seen) ELSE <<>>)
             \o ChildrenPassSeenSoFar(components, index + 1, ids)

\* Variant: a child has to be declared after its parent, which no cycle can
\* satisfy
RECURSIVE ChildrenPassForwardOnly(_, _, _)
ChildrenPassForwardOnly(components, index, ids) ==
    IF index = Len(components) THEN <<>>
    ELSE LET comp  == components[index + 1]
             later == ComponentPass(SubSeq(components, index + 2, Len(components)), 0, <<>>).ids
         IN  (IF IsObject(comp) /\ HasProp(comp, "children") /\ GetProp(comp, "children").t = "array"
              THEN ChildErrors(GetProp(comp, "children").a, index, 0, later) ELSE <<>>)
             \o ChildrenPassForwardOnly(components, index + 1, ids)

ReferenceErrorsForwardOnly(components, ids) == ChildrenPassForwardOnly(components, 0, ids)

ReferenceErrorsSeenSoFar(components, ids) == ChildrenPassSeenSoFar(components, 0, ids)

ReferenceErrors(components, ids) == ChildrenPass(components, 0, ids)

validateResponse(response) ==
    IF ~IsObject(response)
    THEN [valid |-> FALSE, errors |-> << ValidationError("", "INVALID_TYPE") >>]
    ELSE LET version    == GetProp(response, "version")
             root       == GetProp(response, "root")
             components == GetProp(response, "components")
             first      == ComponentPass(components.a, 0, <<>>)
             errors ==
                 (IF NotAString(version)
                  THEN << ValidationError("version", "MISSING_FIELD") >> ELSE <<>>)
              \o (IF NotAString(root)
                  THEN << ValidationError("root", "MISSING_FIELD") >> ELSE <<>>)
              \o (IF components.t # "array"
                  THEN << ValidationError("components", "INVALID_TYPE") >>
                  ELSE first.errors
                       \o RootErrors(root, first.ids)
                       \o ReferenceErrors(components.a, first.ids))
         IN  [valid |-> Len(errors) = 0, errors |-> errors]

\* Variant: an add, an update or a replace without a component is an error
validateUpdateRequiresPayload(update) ==
    IF ~IsObject(update)
    THEN [valid |-> FALSE, errors |-> << ValidationError("", "INVALID_TYPE") >>]
    ELSE LET operation == GetProp(update, "operation")
             errors ==
                 (IF ~Truthy(operation) \/ operation.t # "string" \/ operation.s \notin ValidOperations
                  THEN << ValidationError("operation", "INVALID_VALUE") >> ELSE <<>>)
              \o (IF NotAString(GetProp(update, "targetId"))
                  THEN << ValidationError("targetId", "MISSING_FIELD") >> ELSE <<>>)
              \o (IF operation # Str("remove") /\ ~IsObject(GetProp(update, "component"))
                  THEN << ValidationError("component", "MISSING_FIELD") >> ELSE <<>>)
         IN  [valid |-> Len(errors) = 0, errors |-> errors]

\* validateUpdate on any value: validOperations.includes(upd.operation)
validateUpdateValue(update) ==
    IF ~IsObject(update)
    THEN [valid |-> FALSE, errors |-> << ValidationError("", "INVALID_TYPE") >>]
    ELSE LET operation == GetProp(update, "operation")
             errors ==
                 (IF ~Truthy(operation) \/ operation.t # "string" \/ operation.s \notin ValidOperations
                  THEN << ValidationError("operation", "INVALID_VALUE") >> ELSE <<>>)
              \o (IF NotAString(GetProp(update, "targetId"))
                  THEN << ValidationError("targetId", "MISSING_FIELD") >> ELSE <<>>)
         IN  [valid |-> Len(errors) = 0, errors |-> errors]

\* Values the validators are called with.
Component(id, type) == Obj([id |-> Str(id), type |-> Str(type)])

Parent(id, type, children) ==
    Obj([id |-> Str(id), type |-> Str(type),
         children |-> Arr([i \in 1..Len(children) |-> Str(children[i])])])

\* what `components` holds: arrays of valid components (with forward
\* references), with ids that repeat, with dangling children, with elements
\* that are no components, with fields of the wrong type; no array at all
ComponentLists == <<
    Arr(<< Parent("root", "container", << "a", "b" >>),
           Component("a", "text"),
           Obj([id |-> Str("b"), type |-> Str("button"),
                props |-> Obj([label |-> Str("Go")]), children |-> Arr(<<>>)]) >>),
    Arr(<< Component("root", "text") >>),
    Arr(<< Parent("root", "container", << "a" >>), Component("a", "text"),
           Component("b", "text"), Component("a", "text"), Component("a", "button") >>),
    Arr(<< Parent("root", "container", << "a", "ghost", "ghost" >>),
           Parent("a", "text", << "nope", "root" >>) >>),
    Arr(<< Null, Num(3), Arr(<<>>), Obj([type |-> Str("x")]),
           Obj([id |-> Str(""), type |-> Str("")]),
           Obj([id |-> Num(5), type |-> Str("t")]),
           Obj([id |-> Num(5), type |-> Num(1)]),
           Obj([id |-> Str(""), type |-> Str("t")]) >>),
    Arr(<< Obj([id |-> Str("root"), type |-> Str("t"), children |-> Str("a"), props |-> Str("p")]),
           Obj([id |-> Str("a"), type |-> Str("t"), props |-> Null]),
           Obj([id |-> Str("c"), type |-> Str("t"), props |-> Arr(<<>>),
                children |-> Arr(<< Num(5), Str("root") >>)]) >>),
    Arr(<<>>),
    Undefined,
    Str("none"),
    Obj(EmptyObject) >>

Versions == << Str("1.0"), Str(""), Num(1), Undefined >>
Roots == << Str("root"), Str("ghost"), Str(""), Null >>

Response(version, root, components) ==
    Obj([version |-> version, root |-> root, components |-> components])

OtherResponses == << Null, Undefined, Str("x"), Num(0), Bool(TRUE), Arr(<<>>), Obj(EmptyObject) >>

ComponentValues ==
    ComponentLists[1].a \o ComponentLists[5].a \o ComponentLists[6].a \o << Undefined, Str("x") >>

ComponentPaths == {"", "components[0]"}

UpdateValues == <<
    Obj([operation |-> Str("add"), targetId |-> Str("root"), component |-> Component("n", "text")]),
    Obj([operation |-> Str("remove"), targetId |-> Str("ghost")]),
    Obj([operation |-> Str("update"), targetId |-> Str("")]),
    Obj([operation |-> Str("replace"), targetId |-> Num(1)]),
    Obj([operation |-> Str("move"), targetId |-> Str("root")]),
    Obj([operation |-> Str(""), targetId |-> Null]),
    Obj([operation |-> Num(1)]),
    Obj([targetId |-> Str("root")]),
    Obj(EmptyObject), Arr(<<>>), Null, Undefined, Str("add"), Num(0),
    Obj([operation |-> Str("update"), targetId |-> Str("ghost")]),
    Obj([operation |-> Str("add"), targetId |-> Str("root")]),
    Obj([operation |-> Str("replace"), targetId |-> Str("a"), component |-> Null]) >>

InitValidation ==
    /\ heap = <<>>
    /\ resp = 0
    /\ hist = <<>>
    /\ call = NoCall

\* one call in a behaviour: the validators are pure
CallValidateResponse ==
    /\ call.fn = "none"
    /\ \E response \in
            {Response(Versions[v], Roots[r], ComponentLists[c]) :
                v \in DOMAIN Versions, r \in DOMAIN Roots, c \in DOMAIN ComponentLists}
            \cup {OtherResponses[o] : o \in DOMAIN OtherResponses} :
        call' = [fn |-> "validateResponse", response |-> response,
                 result |-> validateResponse(response)]
    /\ UNCHANGED <<heap, resp, hist>>

CallValidateComponent ==
    /\ call.fn = "none"
    /\ \E c \in DOMAIN ComponentValues, path \in ComponentPaths :
        call' = [fn |-> "validateComponent", component |-> ComponentValues[c], path |-> path,
                 result |-> validateComponent(ComponentValues[c], path)]
    /\ UNCHANGED <<heap, resp, hist>>

CallValidateUpdate ==
    /\ call.fn = "none"
    /\ \E u \in DOMAIN UpdateValues :
        call' = [fn |-> "validateUpdate", update |-> UpdateValues[u],
                 result |-> validateUpdateValue(UpdateValues[u])]
    /\ UNCHANGED <<heap, resp, hist>>

NextValidation == CallValidateResponse \/ CallValidateComponent \/ CallValidateUpdate

SpecValidation == InitValidation /\ [][NextValidation]_vars

\* What the claims about validation speak of.
NonEmptyString(v) == v.t = "string" /\ v.s # ""

ErrorsWithCode(errors, code) == {k \in DOMAIN errors : errors[k].code = code}
PathsWithCode(errors, code) == {errors[k].path : k \in ErrorsWithCode(errors, code)}
HasError(errors, path, code) == \E k \in DOMAIN errors : errors[k] = ValidationError(path, code)

\* the elements of `components` (none when it is no array) and the ids declared
ComponentsOf(response) ==
    IF IsObject(response) /\ GetProp(response, "components").t = "array"
    THEN GetProp(response, "components").a ELSE <<>>

Carrying(a) == {i \in DOMAIN a : CarriesId(a[i])}
DeclaredIds(a) == {GetProp(a[i], "id") : i \in Carrying(a)}

\* the children entries <<i, j>> (0-based) that name no declared component
Dangling(a) ==
    UNION {
        IF IsObject(a[i]) /\ GetProp(a[i], "children").t = "array"
        THEN {<< i - 1, j - 1 >> : j \in
                {j \in DOMAIN GetProp(a[i], "children").a :
                    GetProp(a[i], "children").a[j] \notin DeclaredIds(a)}}
        ELSE {} : i \in DOMAIN a }

ChildPath(ij) == AtIndex(AtField(AtIndex("components", ij[1]), "children"), ij[2])

\* valid by the data model
ValidByDataModel(response) ==
    LET a == ComponentsOf(response)
    IN  /\ response.t = "object"
        /\ NonEmptyString(GetProp(response, "version"))
        /\ NonEmptyString(GetProp(response, "root"))
        /\ GetProp(response, "components").t = "array"
        /\ GetProp(response, "root") \in DeclaredIds(a)
        /\ \A i \in DOMAIN a :
            /\ a[i].t = "object"
            /\ NonEmptyString(GetProp(a[i], "id"))
            /\ NonEmptyString(GetProp(a[i], "type"))
            /\ GetProp(a[i], "children").t \in {"undefined", "array"}
            /\ GetProp(a[i], "props").t \in {"undefined", "object"}
        /\ Dangling(a) = {}
        /\ \A i, j \in DOMAIN a : i # j => GetProp(a[i], "id") # GetProp(a[j], "id")

\* C17: a response that is valid by the data model is reported valid, with an
\* empty error list.
C17_ValidResponseHasNoErrors ==
    (call.fn = "validateResponse" /\ ValidByDataModel(call.response))
    => (call.result.valid /\ call.result.errors = <<>>)

\* A valid response whose root lists children declared after it.
C17_Witness ==
    /\ call.fn = "validateResponse"
    /\ ValidByDataModel(call.response)
    /\ Len(ComponentsOf(call.response)) = 3
    /\ GetProp(ComponentsOf(call.response)[1], "children") = Arr(<< Str("a"), Str("b") >>)
    /\ call.result.valid

\* C18: the DUPLICATE_ID errors are as many as the components carrying an id
\* minus the distinct ids, one at components[i].id of every occurrence of an
\* id that is not its first, and none when all ids are distinct.
C18_DuplicateIdPerExtraOccurrence ==
    (call.fn = "validateResponse" /\ IsObject(call.response)
        /\ GetProp(call.response, "components").t = "array")
    => LET a      == ComponentsOf(call.response)
           errors == call.result.errors
           later  == {i \in Carrying(a) :
                        \E j \in Carrying(a) : j < i /\ GetProp(a[j], "id") = GetProp(a[i], "id")}
       IN  /\ Cardinality(ErrorsWithCode(errors, "DUPLICATE_ID"))
                = Cardinality(Carrying(a)) - Cardinality(DeclaredIds(a))
           /\ PathsWithCode(errors, "DUPLICATE_ID")
                = {AtField(AtIndex("components", i - 1), "id") : i \in later}
           /\ Cardinality(DeclaredIds(a)) = Cardinality(Carrying(a))
                => ErrorsWithCode(errors, "DUPLICATE_ID") = {}

\* An id that occurs three times, the occurrences not all adjacent: two errors.
C18_Witness ==
    /\ call.fn = "validateResponse"
    /\ Len(ComponentsOf(call.response)) = 5
    /\ Cardinality(ErrorsWithCode(call.result.errors, "DUPLICATE_ID")) = 2
    /\ PathsWithCode(call.result.errors, "DUPLICATE_ID") = {"components[3].id", "components[4].id"}

\* the paths at which an INVALID_REFERENCE is expected: the dangling children
\* entries, and root when it is a non-empty string that names no component
\* and the condition on `components` holds
ExpectedReferencePaths(response, rootIsChecked) ==
    {ChildPath(ij) : ij \in Dangling(ComponentsOf(response))}
    \cup (IF /\ rootIsChecked
             /\ NonEmptyString(GetProp(response, "root"))
             /\ GetProp(response, "root") \notin DeclaredIds(ComponentsOf(response))
          THEN {"root"} ELSE {})

\* C19 as stated: exactly one INVALID_REFERENCE per dangling children entry,
\* at components[i].children[j], none for an entry that names a declared
\* component, and one at root when root is a non-empty string that names no
\* declared component.
C19_OneErrorPerDanglingReference ==
    (call.fn = "validateResponse" /\ IsObject(call.response))
    => /\ PathsWithCode(call.result.errors, "INVALID_REFERENCE")
            = ExpectedReferencePaths(call.response, TRUE)
       /\ Cardinality(ErrorsWithCode(call.result.errors, "INVALID_REFERENCE"))
            = Cardinality(ExpectedReferencePaths(call.response, TRUE))

\* C19 amended: as stated, the error at root being reported only when
\* `components` is an array.
C19_RootCheckedWhenComponentsIsArray ==
    (call.fn = "validateResponse" /\ IsObject(call.response))
    => LET expected == ExpectedReferencePaths(call.response,
                            GetProp(call.response, "components").t = "array")
       IN  /\ PathsWithCode(call.result.errors, "INVALID_REFERENCE") = expected
           /\ Cardinality(ErrorsWithCode(call.result.errors, "INVALID_REFERENCE"))
                = Cardinality(expected)

\* Three dangling entries in two components and a root that names nothing.
C19_Witness ==
    /\ call.fn = "validateResponse"
    /\ GetProp(call.response, "root") = Str("ghost")
    /\ Cardinality(Dangling(ComponentsOf(call.response))) = 3
    /\ PathsWithCode(call.result.errors, "INVALID_REFERENCE")
         = {"root", "components[0].children[1]", "components[0].children[2]",
            "components[1].children[0]"}

\* the errors of one component at a path, each field on its own
FieldErrorsIndependent(component, path, errors) ==
    IF ~IsObject(component) THEN HasError(errors, path, "INVALID_TYPE")
    ELSE /\ HasError(errors, AtField(path, "id"), "MISSING_FIELD")
                <=> ~NonEmptyString(GetProp(component, "id"))
         /\ HasError(errors, AtField(path, "type"), "MISSING_FIELD")
                <=> ~NonEmptyString(GetProp(component, "type"))
         /\ HasError(errors, AtField(path, "children"), "INVALID_TYPE")
                <=> GetProp(component, "children").t \notin {"undefined", "array"}
         /\ HasError(errors, AtField(path, "props"), "INVALID_TYPE")
                <=> GetProp(component, "props").t \notin {"undefined", "object", "array"}

C21_UpdateValidity ==
    call.fn = "validateUpdate" =>
        (call.result.valid <=>
            /\ IsObject(call.update)
            /\ \E op \in ValidOperations : GetProp(call.update, "operation") = Str(op)
            /\ NonEmptyString(GetProp(call.update, "targetId")))

\* An update without a component, for a target no response declares, is valid.
C21_Witness ==
    /\ call.fn = "validateUpdate"
    /\ GetProp(call.update, "operation") = Str("update")
    /\ GetProp(call.update, "targetId") = Str("ghost")
    /\ ~HasProp(call.update, "component")
    /\ call.result.valid

------------------------------------------------------------------------------
(* buildComponentTree and findComponent, utils.ts; the recursion of         *)
(* buildNode is a stack of frames, one step per call, skip or return        *)

MaxDepth == 5

\* componentMap after the forEach: a later set() of an id replaces the earlier
componentMap(components) ==
    [id \in {IdOf(components[i]) : i \in DOMAIN components} |->
        components[CHOOSE i \in DOMAIN components :
                      /\ IdOf(components[i]) = id
                      /\ \A j \in DOMAIN components : IdOf(components[j]) = id => j <= i]]

\* Variant: the last component with the id
findComponentLast(response, id) ==
    IF id \in DOMAIN componentMap(response.components)
    THEN componentMap(response.components)[id] ELSE Undefined

\* response.components.find((c) => c.id === id), Undefined when there is none
findComponent(response, id) ==
    LET hits == {i \in DOMAIN response.components : IdOf(response.components[i]) = id}
    IN  IF hits = {} THEN Undefined
        ELSE response.components[CHOOSE i \in hits : \A j \in hits : i <= j]

\* component.children as the for loop reads it: nothing when it is absent
ChildIds(component) == IF "children" \in DOMAIN component THEN component.children ELSE <<>>

\* the frame of a call buildNode(id) that found its component: the child to
\* visit next and the childNodes pushed so far
Frame(component) == [component |-> component, next |-> 1, childNodes |-> <<>>]

\* { ...component, childNodes }
Node(component, childNodes) == Spread(component, [childNodes |-> childNodes])

\* Responses whose tree is built: root, a and b with every choice of children
\* below (forward, shared, dangling, cyclic), a root that may name nothing,
\* and a second declaration of a.
ChildLists == {<<>>, <<"a">>, <<"b">>, <<"a", "b">>, <<"b", "ghost", "a">>, <<"root">>, <<"a", "a">>}

Declared(id, type, children) ==
    IF children = <<>> THEN [id |-> id, type |-> type]
    ELSE [id |-> id, type |-> type, children |-> children]

TreeResponses ==
    {[version |-> "0.8", root |-> root,
      components |-> << Declared("root", "container", rk), Declared("a", "card", ak),
                        Declared("b", "text", bk) >>
                     \o (IF again THEN << Declared("a", "button", <<>>) >> ELSE <<>>)] :
        root \in {"root", "ghost"}, rk \in ChildLists, ak \in {<<>>, <<"b">>, <<"a">>, <<"root">>},
        bk \in {<<>>, <<"a">>, <<"b", "ghost">>}, again \in BOOLEAN}

InitTree ==
    /\ heap = <<>>
    /\ resp = 0
    /\ hist = <<>>
    /\ call = NoCall

\* buildComponentTree(response): index the components, call buildNode(root)
BuildComponentTree ==
    /\ call.fn = "none"
    /\ \E response \in TreeResponses :
        LET map == componentMap(response.components)
        IN  call' = IF response.root \in DOMAIN map
                    THEN [fn |-> "buildComponentTree", response |-> response,
                          stack |-> << Frame(map[response.root]) >>,
                          status |-> "running", result |-> Null]
                    ELSE [fn |-> "buildComponentTree", response |-> response,
                          stack |-> <<>>, status |-> "returned", result |-> Null]
    /\ UNCHANGED <<heap, resp, hist>>

Running == call.fn = "buildComponentTree" /\ call.status = "running"

\* the frame on top of the stack and the child id its loop is at
Top == call.stack[Len(call.stack)]
AtChild == Top.next <= Len(ChildIds(Top.component))
ChildId == ChildIds(Top.component)[Top.next]

\* Variant: a visited set, a component whose frame is on the stack is not
\* entered again
FoundUnlessOnStack(id) ==
    /\ id \in DOMAIN componentMap(call.response.components)
    /\ \A k \in DOMAIN call.stack : call.stack[k].component.id # id

\* componentMap.get(id) is a component
Found(id) == id \in DOMAIN componentMap(call.response.components)

\* Variant: a child that is not found ends the loop over the children
AfterSkipEndsLoop(frame) == [frame EXCEPT !.next = Len(ChildIds(frame.component)) + 1]

\* if (childNode) is false: the loop goes to the next child
AfterSkip(frame) == [frame EXCEPT !.next = @ + 1]

\* buildNode(childId) finds the component: a new frame
BuildNodeCall ==
    /\ Running /\ AtChild
    /\ Found(ChildId)
    /\ Len(call.stack) < MaxDepth
    /\ call' = [call EXCEPT
            !.stack = Append([@ EXCEPT ![Len(@)].next = @ + 1],
                             Frame(componentMap(call.response.components)[ChildId]))]
    /\ UNCHANGED <<heap, resp, hist>>

\* buildNode(childId) returns null: nothing is pushed
BuildNodeSkip ==
    /\ Running /\ AtChild
    /\ ~Found(ChildId)
    /\ call' = [call EXCEPT !.stack[Len(call.stack)] = AfterSkip(@)]
    /\ UNCHANGED <<heap, resp, hist>>

\* the loop is over: the node goes to the caller's childNodes, or is the result
BuildNodeReturn ==
    /\ Running /\ ~AtChild
    /\ LET node == Node(Top.component, Top.childNodes)
           d    == Len(call.stack)
       IN  call' = IF d = 1
                   THEN [call EXCEPT !.stack = <<>>, !.status = "returned", !.result = node]
                   ELSE [call EXCEPT !.stack =
                            [SubSeq(@, 1, d - 1) EXCEPT ![d - 1].childNodes = Append(@, node)]]
    /\ UNCHANGED <<heap, resp, hist>>

NextTree == BuildComponentTree \/ BuildNodeCall \/ BuildNodeSkip \/ BuildNodeReturn

SpecTree == InitTree /\ [][NextTree]_vars

\* a call that is made is run to its end unless it never ends
SpecTreeFair == SpecTree /\ WF_vars(NextTree)

\* What the claims about the tree speak of.
HasReturned == call.fn = "buildComponentTree" /\ call.status = "returned"

\* the children entries of the component an id resolves to that resolve
Kids(response, id) ==
    LET map == componentMap(response.components)
    IN  {c \in Range(ChildIds(map[id])) : c \in DOMAIN map}

\* the ids reached from a set of ids by following resolving children
RECURSIVE Closure(_, _)
Closure(response, ids) ==
    LET more == ids \cup UNION {Kids(response, id) : id \in ids}
    IN  IF more = ids THEN ids ELSE Closure(response, more)

\* a component reachable from root is its own descendant
CycleReachable(response) ==
    /\ response.root \in DOMAIN componentMap(response.components)
    /\ \E id \in Closure(response, {response.root}) : id \in Closure(response, Kids(response, id))

\* the tree of an id that resolves, in an acyclic response: the component with
\* the trees of its resolving children in the order of the list
RECURSIVE TreeOf(_, _, _)
RECURSIVE TreesOf(_, _, _)
TreesOf(response, ids, fuel) ==
    IF ids = <<>> THEN <<>>
    ELSE (IF Head(ids) \in DOMAIN componentMap(response.components)
          THEN << TreeOf(response, Head(ids), fuel) >> ELSE <<>>)
         \o TreesOf(response, Tail(ids), fuel)

TreeOf(response, id, fuel) ==
    LET component == componentMap(response.components)[id]
    IN  Spread(component,
               [childNodes |-> IF fuel = 0 THEN <<>>
                               ELSE TreesOf(response, ChildIds(component), fuel - 1)])

\* C22: the result is null when root names no component; otherwise it is the
\* node of root, whose childNodes are, in the order of the children list, the
\* nodes of the entries that name a declared component, an entry that does
\* not being skipped, and so on below; a child under two parents has a node
\* under each.
C22_TreeOfResolvingChildren ==
    HasReturned =>
        IF call.response.root \notin DOMAIN componentMap(call.response.components)
        THEN call.result = Null
        ELSE call.result = TreeOf(call.response, call.response.root, Len(call.response.components))

\* root lists b, a dangling id and a; a lists b: the dangling entry is left
\* out, a comes after b, and b has a node under root and one under a.
C22_Witness ==
    /\ HasReturned
    /\ call.response.root = "root"
    /\ ChildIds(findComponent(call.response, "root")) = << "b", "ghost", "a" >>
    /\ Len(call.result.childNodes) = 2
    /\ call.result.childNodes[1].id = "b"
    /\ call.result.childNodes[2].id = "a"
    /\ Len(call.result.childNodes[2].childNodes) = 1
    /\ call.result.childNodes[2].childNodes[1] = call.result.childNodes[1]

\* C23: buildComponentTree ends exactly when no cycle of resolving children
\* is reachable from root: a call on an acyclic response returns, a call on a
\* response with a reachable cycle never does.
C23_TerminatesIffAcyclic ==
    /\ [](Running /\ ~CycleReachable(call.response) => <>HasReturned)
    /\ [](call.fn = "buildComponentTree" /\ CycleReachable(call.response) => ~HasReturned)

\* The recursion is as deep as the bound lets it go, in a component that
\* lists itself: every frame from the second on is the same component.
C23_Witness ==
    /\ Running
    /\ CycleReachable(call.response)
    /\ Len(call.stack) = MaxDepth
    /\ \A k \in 2..MaxDepth : call.stack[k].component.id = "a"
    /\ "a" \in Range(ChildIds(call.stack[2].component))

\* the response as the value validateResponse is given
JsComponent(c) ==
    Obj(Spread([id |-> Str(c.id), type |-> Str(c.type)],
               IF "children" \in DOMAIN c
               THEN [children |-> Arr([i \in 1..Len(c.children) |-> Str(c.children[i])])]
               ELSE EmptyObject))

JsResponse(r) ==
    Obj([version |-> Str(r.version), root |-> Str(r.root),
         components |-> Arr([i \in 1..Len(r.components) |-> JsComponent(r.components[i])])])

\* C24: a response whose only defect is a cycle in the children graph is
\* reported valid with no error, and buildComponentTree does not return on it.
C24_CycleIsNotDetected ==
    (/\ call.fn = "buildComponentTree"
     /\ CycleReachable(call.response)
     /\ ValidByDataModel(JsResponse(call.response)))
    => /\ validateResponse(JsResponse(call.response)).valid
       /\ validateResponse(JsResponse(call.response)).errors = <<>>
       /\ ~HasReturned

\* root lists a, a lists root, every reference resolves and the ids are
\* distinct: the response is valid and the recursion is at the bound.
C24_Witness ==
    /\ Running
    /\ ValidByDataModel(JsResponse(call.response))
    /\ validateResponse(JsResponse(call.response)).valid
    /\ ChildIds(findComponent(call.response, "a")) = << "root" >>
    /\ "a" \in Range(ChildIds(findComponent(call.response, "root")))
    /\ Len(call.stack) = MaxDepth

\* C27: when several components share an id the lookups disagree:
\* findComponent gives the first component with the id in declaration order
\* (undefined when there is none), the map buildComponentTree resolves ids
\* with gives the last; an 'update' and a 'replace' change every component
\* with the id, a 'remove' deletes them all.
C27_LookupsDisagreeOnSharedId ==
    Called =>
        /\ \A id \in Ids \cup {"ghost"} :
            LET with == {i \in DOMAIN Before.components : IdOf(Before.components[i]) = id}
            IN  IF with = {} THEN findComponent(Before, id) = Undefined
                ELSE /\ findComponent(Before, id)
                          = Before.components[CHOOSE i \in with : \A j \in with : i <= j]
                     /\ componentMap(Before.components)[id]
                          = Before.components[CHOOSE i \in with : \A j \in with : j <= i]
        /\ (upd.operation = "update" /\ upd.hasComponent)
            => \A i \in Targeted :
                 After.components[i] = Spread(Before.components[i], upd.component)
        /\ (upd.operation = "replace" /\ upd.hasComponent)
            => \A i \in Targeted :
                 After.components[i] = Spread([id |-> Before.components[i].id], upd.component)
        /\ upd.operation = "remove"
            => \A i \in DOMAIN After.components : IdOf(After.components[i]) # upd.targetId

\* An earlier 'add' brought a second component with id x; the two lookups
\* give different components for x, and an 'update' of x changed both.
C27_Witness ==
    /\ Called
    /\ Cardinality(Targeted) = 2
    /\ upd.operation = "update" /\ upd.targetId = "x" /\ upd.hasComponent
    /\ findComponent(Before, "x") # componentMap(Before.components)["x"]
    /\ \A i \in Targeted : After.components[i] # Before.components[i]
    /\ Len(After.components) = Len(Before.components)

\* The nested write as the claim describes it: the key of the last segment
\* is set; before it, an intermediate that is a mapping keeps its other keys,
\* and one that is missing or holds something else is a fresh mapping that
\* holds the rest of the path only.
RECURSIVE NestedWrite(_, _, _)
NestedWrite(mapping, parts, value) ==
    IF Len(parts) = 1 THEN Obj(Spread(mapping.f, Head(parts) :> value))
    ELSE LET held == GetProp(mapping, Head(parts))
         IN  Obj(Spread(mapping.f,
                        Head(parts) :> NestedWrite(IF held.t = "object" THEN held ELSE Obj(EmptyObject),
                                                   Tail(parts), value)))

\* C26: setBinding leaves every top-level key other than the first segment
\* as it was, keeps the sibling keys of every mapping along the path, creates
\* a missing intermediate as a mapping, and replaces an intermediate that
\* holds a non-mapping value by a fresh mapping with the rest of the path only.
C26_ImmutableNestedWrite ==
    call.fn = "setBinding" =>
        call.result = NestedWrite(call.data, Split(call.path, "."), call.value)

------------------------------------------------------------------------------
(* The component registries (a2ui-react/src/registry.ts, a2ui-core/src/     *)
(* registry.ts) and the registry A2UIRenderer builds; a registry is its Map *)
(* from type to entry                                                       *)

MaxRegistryCalls == 3

\* new Map()
EmptyRegistry == [type \in {} |-> [type |-> "", Component |-> "", builtin |-> FALSE]]

\* this.components.set(entry.type, entry)
register(components, entry) == Spread(components, entry.type :> entry)

\* entries.forEach((entry) => this.register(entry))
RECURSIVE registerAll(_, _)
registerAll(components, entries) ==
    IF entries = <<>> THEN components
    ELSE registerAll(register(components, Head(entries)), Tail(entries))

\* Variant: extend sets every entry of the other registry
extendOverwriting(components, other) == Spread(components, other)

\* other.components.forEach: set(type, entry) for the types this one lacks
extend(components, other) ==
    [type \in DOMAIN components \cup DOMAIN other |->
        IF type \in DOMAIN components THEN components[type] ELSE other[type]]

BuiltinEntry(type, implementation) ==
    [type |-> type, Component |-> implementation, builtin |-> TRUE]

createBuiltinComponents == <<
    BuiltinEntry("card", "Card"), BuiltinEntry("button", "Button"),
    BuiltinEntry("text-field", "TextField"), BuiltinEntry("text", "Text"),
    BuiltinEntry("container", "Container"), BuiltinEntry("image", "Image"),
    BuiltinEntry("select", "Select"), BuiltinEntry("checkbox", "Checkbox"),
    BuiltinEntry("progress", "Progress"), BuiltinEntry("divider", "Divider"),
    BuiltinEntry("chip", "Chip") >>

\* the registry of A2UIRenderer's useMemo: the built-ins, then extend with the
\* caller's registry when the registry prop is given
MergedRegistry(given, customRegistry) ==
    LET builtinRegistry == registerAll(EmptyRegistry, createBuiltinComponents)
    IN  IF given THEN extend(builtinRegistry, customRegistry) ELSE builtinRegistry

\* Entries a caller registers: for a built-in type and for a type of its own.
CustomEntries ==
    {[type |-> type, Component |-> implementation, builtin |-> FALSE] :
        type \in {"card", "my-custom-component"}, implementation \in {"MineA", "MineB"}}

\* Two registries a caller holds, nothing registered, no renderer mounted.
InitRegistry ==
    /\ heap = <<>>
    /\ resp = 0
    /\ hist = <<>>
    /\ call = [fn |-> "registry", calls |-> 0,
               now |-> [a |-> EmptyRegistry, b |-> EmptyRegistry],
               before |-> [a |-> EmptyRegistry, b |-> EmptyRegistry],
               op |-> [name |-> "none"]]

RegistryNames == {"a", "b"}

Register ==
    /\ call.calls < MaxRegistryCalls
    /\ \E on \in RegistryNames, entry \in CustomEntries :
        call' = [call EXCEPT !.calls = @ + 1, !.before = call.now,
                             !.now[on] = register(@, entry),
                             !.op = [name |-> "register", on |-> on, entry |-> entry]]
    /\ UNCHANGED <<heap, resp, hist>>

Extend ==
    /\ call.calls < MaxRegistryCalls
    /\ \E on \in RegistryNames, other \in RegistryNames :
        call' = [call EXCEPT !.calls = @ + 1, !.before = call.now,
                             !.now[on] = extend(@, call.now[other]),
                             !.op = [name |-> "extend", on |-> on, other |-> other]]
    /\ UNCHANGED <<heap, resp, hist>>

\* A2UIRenderer is rendered with one of the registries as its registry prop,
\* or without the prop
RenderA2UIRenderer ==
    /\ call.calls < MaxRegistryCalls
    /\ \E custom \in RegistryNames \cup {"none"} :
        call' = [call EXCEPT !.calls = @ + 1, !.before = call.now,
                             !.op = [name |-> "A2UIRenderer", custom |-> custom,
                                     registry |-> IF custom = "none"
                                                  THEN MergedRegistry(FALSE, EmptyRegistry)
                                                  ELSE MergedRegistry(TRUE, call.now[custom])]]
    /\ UNCHANGED <<heap, resp, hist>>

NextRegistry == Register \/ Extend \/ RenderA2UIRenderer

SpecRegistry == InitRegistry /\ [][NextRegistry]_vars

\* C28: register replaces the entry stored for the type; a.extend(b) keeps
\* every entry a had, takes b's entry for every other type of b and leaves b
\* as it was; so A2UIRenderer, which registers the built-ins and then extends
\* with the caller's registry, leaves that registry as it was and keeps the
\* built-in entry of every built-in type.
C28_RegistryPrecedence ==
    /\ call.op.name = "register" =>
        /\ call.now[call.op.on][call.op.entry.type] = call.op.entry
        /\ \A type \in DOMAIN call.before[call.op.on] \ {call.op.entry.type} :
               call.now[call.op.on][type] = call.before[call.op.on][type]
    /\ call.op.name = "extend" =>
        LET a  == call.before[call.op.on]
            b  == call.before[call.op.other]
            a2 == call.now[call.op.on]
        IN  /\ DOMAIN a2 = DOMAIN a \cup DOMAIN b
            /\ \A type \in DOMAIN a : a2[type] = a[type]
            /\ \A type \in DOMAIN b \ DOMAIN a : a2[type] = b[type]
            /\ call.op.other # call.op.on => call.now[call.op.other] = b
    /\ call.op.name = "A2UIRenderer" =>
        LET custom == IF call.op.custom = "none" THEN EmptyRegistry
                      ELSE call.before[call.op.custom]
        IN  /\ call.now = call.before
            /\ \A i \in DOMAIN createBuiltinComponents :
                   call.op.registry[createBuiltinComponents[i].type] = createBuiltinComponents[i]
            /\ \A type \in DOMAIN custom :
                   (\A i \in DOMAIN createBuiltinComponents : createBuiltinComponents[i].type # type)
                       => call.op.registry[type] = custom[type]

\* The caller registered a card of its own and a type of its own; the
\* renderer's registry has the built-in card and the caller's own type.
C28_Witness ==
    /\ call.op.name = "A2UIRenderer"
    /\ call.op.custom # "none"
    /\ "card" \in DOMAIN call.now[call.op.custom]
    /\ call.now[call.op.custom]["card"].Component = "MineA"
    /\ "my-custom-component" \in DOMAIN call.now[call.op.custom]
    /\ call.op.registry["card"].Component = "Card"
    /\ call.op.registry["my-custom-component"].builtin = FALSE

------------------------------------------------------------------------------
(* Rendering a component whose type may be unknown: the React renderer      *)
(* (A2UIComponentRenderer), the Lit renderer (A2UIRenderer.renderComponent) *)
(* and A2UIRegistry.render of the core                                      *)

\* <A2UIComponentRenderer id={id} />: null, or the element of the entry's
\* Component with the rendered children
RECURSIVE A2UIComponentRenderer(_, _, _, _)
A2UIComponentRenderer(response, registry, data, id) ==
    LET component == findComponent(response, id)
    IN  IF component = Undefined THEN Null
        ELSE IF /\ "when" \in DOMAIN component
                /\ component.when # ""
                /\ ~evaluateCondition(component.when, data)
             THEN Null
        ELSE IF component.type \notin DOMAIN registry THEN Null
        ELSE [element  |-> registry[component.type].Component,
              key      |-> component.id,
              children |-> [i \in 1..Len(ChildIds(component)) |->
                              A2UIComponentRenderer(response, registry, data,
                                                    ChildIds(component)[i])]]

\* the div of the default case of renderComponent
LitUnknown(type) == [element |-> "div.a2ui-unknown", text |-> "Unknown component: " \o type]

\* renderComponent(child) for a child of the children list, which is an id:
\* a string has no type, props or children, the default case is taken
LitRenderChild(childId) == LitUnknown("undefined")

\* the types renderComponent has a case for, and those whose element takes
\* the rendered children
LitTypes == {"text", "container", "card", "list", "data-table", "chart", "link", "chip", "button"}
LitContainers == {"container", "card"}

\* A2UIRenderer.renderComponent(component)
renderComponent(component) ==
    LET renderedChildren == [i \in 1..Len(ChildIds(component)) |->
                                LitRenderChild(ChildIds(component)[i])]
    IN  IF component.type \in LitTypes
        THEN [element  |-> "a2ui-" \o component.type,
              key      |-> component.id,
              children |-> IF component.type \in LitContainers THEN renderedChildren ELSE <<>>]
        ELSE LitUnknown(component.type)

\* A2UIRenderer.render(response): every component of the list, in order
LitRender(response) ==
    [element  |-> "div.a2ui-root",
     children |-> [i \in 1..Len(response.components) |-> renderComponent(response.components[i])]]

\* A2UIRegistry.render(component, context): the entry's renderer, else the
\* fallback when one is set, else null
RegistryRender(components, hasFallback, component) ==
    IF component.type \in DOMAIN components
    THEN [element |-> components[component.type].Component, key |-> component.id, children |-> <<>>]
    ELSE IF hasFallback
         THEN [element |-> "fallback", key |-> component.id, children |-> <<>>]
         ELSE Null

\* Responses that are rendered: root with a and b below it, c below a when a
\* lists it; each type known or not; a may carry a condition.
Gated(component, when) == IF when = "" THEN component ELSE Spread(component, [when |-> when])

RenderResponses ==
    {[version |-> "0.8", root |-> "root",
      components |-> << Declared("root", rt, << "a", "b" >>),
                        Gated(Declared("a", at, ak), when),
                        Declared("b", bt, <<>>),
                        Declared("c", ct, <<>>) >>] :
        rt \in {"container", "mystery"}, at \in {"card", "mystery", "my-custom-component"},
        ak \in {<<>>, << "c" >>}, when \in {"", "data.show"},
        bt \in {"text", "mystery"}, ct \in {"text", "mystery"}}

RenderData == << Obj([show |-> Bool(TRUE)]), Obj([show |-> Bool(FALSE)]) >>

InitRender ==
    /\ heap = <<>>
    /\ resp = 0
    /\ hist = <<>>
    /\ call = NoCall

\* A2UIRenderer of the React library: the merged registry, the walk from root
CallReactRenderer ==
    /\ call.fn = "none"
    /\ \E response \in RenderResponses, custom \in SUBSET CustomEntries, d \in DOMAIN RenderData :
        /\ \A e1, e2 \in custom : e1.type = e2.type => e1 = e2
        /\ LET registry == MergedRegistry(TRUE, [type \in {e.type : e \in custom} |->
                                                    CHOOSE e \in custom : e.type = type])
           IN  call' = [fn |-> "A2UIComponentRenderer", response |-> response,
                        registry |-> registry, data |-> RenderData[d],
                        result |-> A2UIComponentRenderer(response, registry, RenderData[d],
                                                         response.root)]
    /\ UNCHANGED <<heap, resp, hist>>

CallLitRenderer ==
    /\ call.fn = "none"
    /\ \E response \in RenderResponses :
        call' = [fn |-> "renderComponent", response |-> response, result |-> LitRender(response)]
    /\ UNCHANGED <<heap, resp, hist>>

CallRegistryRender ==
    /\ call.fn = "none"
    /\ \E response \in RenderResponses, i \in 1..4, hasFallback \in BOOLEAN :
        call' = [fn |-> "A2UIRegistry.render", component |-> response.components[i],
                 hasFallback |-> hasFallback,
                 registry |-> MergedRegistry(FALSE, EmptyRegistry),
                 result |-> RegistryRender(MergedRegistry(FALSE, EmptyRegistry), hasFallback,
                                           response.components[i])]
    /\ UNCHANGED <<heap, resp, hist>>

NextRender == CallReactRenderer \/ CallLitRenderer \/ CallRegistryRender

SpecRender == InitRender /\ [][NextRender]_vars

\* the elements of a rendered tree, itself included; null renders nothing
RECURSIVE Elements(_)
Elements(out) ==
    IF out = Null THEN {}
    ELSE {out} \cup (IF "children" \in DOMAIN out
                     THEN UNION {Elements(out.children[i]) : i \in DOMAIN out.children}
                     ELSE {})

\* the components the walk from root comes to when an unknown type does not
\* stop it: the children of every component whose condition lets it render
RECURSIVE Walked(_, _, _)
Walked(response, data, ids) ==
    LET shown == {id \in ids :
                    LET c == findComponent(response, id)
                    IN  /\ c # Undefined
                        /\ ("when" \in DOMAIN c /\ c.when # "") => evaluateCondition(c.when, data)}
        more  == shown \cup UNION {Range(ChildIds(findComponent(response, id))) : id \in shown}
    IN  IF more \subseteq ids THEN shown ELSE Walked(response, data, ids \cup more)

\* an element stands for the component: its own element, or a marked fallback
StandsFor(e, component, known) ==
    IF component.type \in known THEN "key" \in DOMAIN e /\ e.key = component.id
    ELSE \/ "key" \in DOMAIN e /\ e.key = component.id
         \/ "text" \in DOMAIN e /\ e.text = "Unknown component: " \o component.type

\* C25: a component of unknown type is rendered as a marked fallback and the
\* walk goes on, in the React renderer, the Lit renderer and the core
\* registry: the unknown component, its siblings and its children all have
\* an element in what is rendered.
C25_UnknownTypeIsMarkedFallback ==
    /\ call.fn = "A2UIComponentRenderer" =>
        \A id \in Walked(call.response, call.data, {call.response.root}) :
            \E e \in Elements(call.result) :
                StandsFor(e, findComponent(call.response, id), DOMAIN call.registry)
    /\ call.fn = "renderComponent" =>
        \A i \in DOMAIN call.response.components :
            \E e \in Elements(call.result) :
                StandsFor(e, call.response.components[i], LitTypes)
    /\ call.fn = "A2UIRegistry.render" => call.result # Null

------------------------------------------------------------------------------
(* useA2UIFetch: the state of the hook, the fetches it has started and      *)
(* their completions in any order                                           *)

MaxFetches == 3

FetchUrls == {Null, Str("/a"), Str("/b")}

\* what the server and the network do to one fetch
FetchOutcomes == {"ok", "notOk", "rejected", "rejectedNotAnError"}

\* the Error the catch block stores
ErrorOf(outcome, n) ==
    CASE outcome = "notOk"    -> [message |-> "Failed to fetch A2UI: Not Found", of |-> n]
      [] outcome = "rejected" -> [message |-> "Failed to fetch", of |-> n]
      [] OTHER                -> [message |-> "Unknown error", of |-> n]

\* the body the server sends for the n-th fetch
DataOf(url, n) == [version |-> "0.8", from |-> url, of |-> n]

\* useState(null), useState(false), useState(null); nothing fetched yet,
\* the hook is mounted with url = null
InitFetch ==
    /\ heap = <<>>
    /\ resp = 0
    /\ hist = <<>>
    /\ call = [fn |-> "useA2UIFetch", url |-> Null, response |-> Null, loading |-> FALSE,
               error |-> Null, inflight |-> {}, started |-> 0, settled |-> <<>>,
               op |-> [name |-> "mount"]]

HookState(c) == [response |-> c.response, loading |-> c.loading, error |-> c.error,
                 inflight |-> c.inflight]

\* fetchResponse() up to its first await, for the url of its closure
fetchResponse(c, url, name) ==
    IF ~Truthy(url)
    THEN [c EXCEPT !.url = url, !.op = [name |-> name, url |-> url, before |-> HookState(c)]]
    ELSE [c EXCEPT !.url = url, !.loading = TRUE, !.error = Null,
                   !.started = c.started + 1,
                   !.inflight = c.inflight \cup {[n |-> c.started + 1, url |-> url, awaiting |-> "fetch"]},
                   !.op = [name |-> name, url |-> url, before |-> HookState(c)]]

\* the url prop changes: fetchResponse is a new callback and the effect runs it
SetUrl ==
    /\ call.fn = "useA2UIFetch"
    /\ call.started < MaxFetches
    /\ \E url \in FetchUrls \ {call.url} :
        call' = fetchResponse(call, url, "url")
    /\ UNCHANGED <<heap, resp, hist>>

\* refetch(): the fetchResponse of the current url
Refetch ==
    /\ call.fn = "useA2UIFetch"
    /\ call.started < MaxFetches
    /\ call' = fetchResponse(call, call.url, "refetch")
    /\ UNCHANGED <<heap, resp, hist>>

\* what is left of the fetches in flight when f settles
Settle(c, f, outcome) ==
    [c EXCEPT !.inflight = c.inflight \ {f},
              !.settled = [n \in DOMAIN c.settled \cup {f.n} |->
                              IF n = f.n THEN outcome ELSE c.settled[n]],
              !.op = [name |-> "settle", n |-> f.n]]

\* await fetch(url) resolves with res.ok: the function goes on to res.json()
FetchResolves ==
    /\ call.fn = "useA2UIFetch"
    /\ \E f \in call.inflight :
        /\ f.awaiting = "fetch"
        /\ call' = [call EXCEPT !.inflight = (call.inflight \ {f}) \cup {[f EXCEPT !.awaiting = "json"]},
                                !.op = [name |-> "fetched", n |-> f.n]]
    /\ UNCHANGED <<heap, resp, hist>>

\* await res.json() resolves: setResponse(data), finally setLoading(false)
JsonResolves ==
    /\ call.fn = "useA2UIFetch"
    /\ \E f \in call.inflight :
        /\ f.awaiting = "json"
        /\ call' = [Settle(call, f, "ok") EXCEPT !.response = DataOf(f.url, f.n), !.loading = FALSE]
    /\ UNCHANGED <<heap, resp, hist>>

\* res.ok is false, or fetch or json rejects: catch setError, finally
\* setLoading(false)
FetchFails ==
    /\ call.fn = "useA2UIFetch"
    /\ \E f \in call.inflight, outcome \in FetchOutcomes \ {"ok"} :
        /\ f.awaiting = "json" => outcome # "notOk"
        /\ call' = [Settle(call, f, outcome) EXCEPT !.error = ErrorOf(outcome, f.n), !.loading = FALSE]
    /\ UNCHANGED <<heap, resp, hist>>

NextFetch == SetUrl \/ Refetch \/ FetchResolves \/ JsonResolves \/ FetchFails

SpecFetch == InitFetch /\ [][NextFetch]_vars

\* C29: response, loading and error follow the latest request under any
\* interleaving: while a fetch is in flight loading is true; once every
\* fetch has settled loading is false and response or error is that of the
\* fetch started last; with url = null no fetch is started and the state is
\* as it was.
C29_LatestRequestWins ==
    call.fn = "useA2UIFetch" =>
        /\ call.inflight # {} => call.loading
        /\ (call.inflight = {} /\ call.started > 0) =>
            /\ ~call.loading
            /\ IF call.settled[call.started] = "ok"
               THEN /\ call.response # Null
                    /\ call.response.of = call.started
                    /\ call.error = Null
               ELSE call.error = ErrorOf(call.settled[call.started], call.started)
        /\ (call.op.name \in {"url", "refetch"} /\ ~Truthy(call.op.url)) =>
            HookState(call) = call.op.before

------------------------------------------------------------------------------
(* The chat app: handleSendMessage, the completions of the service calls it *)
(* awaits, and clearChat, in any order                                      *)

MaxSends == 2

\* the text of a send-message event
ChatInputs == {"", " ", "hi", "yo "}

\* response.text of a reply of the service
ReplyTexts == {Undefined, Str("hello")}

ErrorContent == "Sorry, there was an error processing your request."

\* a message of the list; of stands for what tells the messages of one send
\* from those of another (id, timestamp)
Message(role, content, n) == [role |-> role, content |-> content, of |-> n]

\* @state() messages = [], isLoading = false
InitChat ==
    /\ heap = <<>>
    /\ resp = 0
    /\ hist = <<>>
    /\ call = [fn |-> "a2ui-app", messages |-> <<>>, isLoading |-> FALSE,
               inflight |-> {}, sent |-> 0, appended |-> <<>>, op |-> [name |-> "none"]]

AppState(c) == [messages |-> c.messages, isLoading |-> c.isLoading, inflight |-> c.inflight]

\* handleSendMessage up to its await
HandleSendMessage ==
    /\ call.fn = "a2ui-app"
    /\ call.sent < MaxSends
    /\ \E message \in ChatInputs :
        call' = IF Trim(message) = ""
                THEN [call EXCEPT !.op = [name |-> "blank", before |-> AppState(call)]]
                ELSE LET n == call.sent + 1
                     IN  [call EXCEPT !.messages = Append(call.messages, Message("user", message, n)),
                                      !.isLoading = TRUE,
                                      !.sent = n,
                                      !.inflight = call.inflight \cup {n},
                                      !.appended = Append(call.appended, 0),
                                      !.op = [name |-> "send", n |-> n]]
    /\ UNCHANGED <<heap, resp, hist>>

\* the rest of handleSendMessage for send n once the awaited call has
\* settled: the assistant message, then finally isLoading = false
Complete(c, n, content) ==
    [c EXCEPT !.messages = Append(c.messages, Message("assistant", content, n)),
              !.isLoading = FALSE,
              !.inflight = c.inflight \ {n},
              !.appended[n] = c.appended[n] + 1,
              !.op = [name |-> "complete", n |-> n]]

\* chatService.sendMessage resolves: content is response.text || ''
SendResolves ==
    /\ call.fn = "a2ui-app"
    /\ \E n \in call.inflight, text \in ReplyTexts :
        call' = Complete(call, n, IF Truthy(text) THEN text.s ELSE "")
    /\ UNCHANGED <<heap, resp, hist>>

\* chatService.sendMessage rejects: the catch block
SendRejects ==
    /\ call.fn = "a2ui-app"
    /\ \E n \in call.inflight :
        call' = Complete(call, n, ErrorContent)
    /\ UNCHANGED <<heap, resp, hist>>

\* clearChat()
ClearChat ==
    /\ call.fn = "a2ui-app"
    /\ call.messages # <<>>
    /\ call' = [call EXCEPT !.messages = <<>>, !.op = [name |-> "clear"]]
    /\ UNCHANGED <<heap, resp, hist>>

NextChat == HandleSendMessage \/ SendResolves \/ SendRejects \/ ClearChat

SpecChat == InitChat /\ [][NextChat]_vars

\* every awaited service call settles
SpecChatFair == SpecChat /\ WF_vars(SendResolves \/ SendRejects)

\* the state parts of C30
ChatConsistent ==
    call.fn = "a2ui-app" =>
        /\ call.op.name = "blank" => AppState(call) = call.op.before
        /\ call.op.name = "send" =>
            /\ call.messages # <<>>
            /\ call.messages[Len(call.messages)].role = "user"
            /\ call.messages[Len(call.messages)].of = call.op.n
        /\ \A n \in 1..call.sent :
            call.appended[n] = IF n \in call.inflight THEN 0 ELSE 1
        /\ \A i \in DOMAIN call.messages :
            call.messages[i].role = "assistant" =>
                \E j \in 1..(i - 1) : /\ call.messages[j].role = "user"
                                      /\ call.messages[j].of = call.messages[i].of
        /\ call.isLoading <=> call.inflight # {}

\* C30: under any interleaving of sends, completions and clearChat, a blank
\* message changes nothing; a non-blank send appends its user message before
\* it awaits and in the end exactly one assistant message; every assistant
\* message in the list comes after the user message that triggered it; and
\* isLoading is true exactly while a send is in flight.
C30_ChatConsistentUnderInterleaving ==
    /\ []ChatConsistent
    /\ \A n \in 1..MaxSends :
        (call.fn = "a2ui-app" /\ n \in call.inflight)
            ~> (call.fn = "a2ui-app" /\ n \notin call.inflight /\ n <= call.sent /\ call.appended[n] = 1)

====
